---- MODULE Spec2Model ----
(***************************************************************************)
(* A model of the cooperative executor of spin-rust-sdk                    *)
(* (crates/executor/src/lib.rs) and of the streaming adapters built on it  *)
(* (src/http/executor.rs): the outgoing byte sink and the incoming byte    *)
(* source; of the request router (src/http/router.rs), of the decoding of  *)
(* database values (src/mysql.rs, src/pg4.rs), and of the wasip3 incoming  *)
(* body and response conversion (crates/wasip3-http-ext,                   *)
(* crates/spin-wasip3-http).                                               *)
(*                                                                         *)
(* A registration is identified by the number of the push that made it.    *)
(* The same number names its shared slot (the Arc<Mutex<Option<Pollable>>>),*)
(* its pollable and its waker.  Indices of sequences are 1-based here and  *)
(* 0-based in the source.                                                  *)
(***************************************************************************)
EXTENDS Integers, Sequences, FiniteSets, TLC

\* ------------------------------------------------------------------ bounds

\* Registrations ever pushed in one behaviour.
MaxRegs == 3
\* Polls of the root future that return Pending within one call of run.
MaxPolls == 2
\* Calls of run in one behaviour.
MaxRuns == 2

\* Chunks sent through the outgoing sink, and bytes in one chunk.
MaxChunks == 2
MaxChunkLen == 3
\* Largest capacity check_write reports.
MaxCap == 2
\* Pollables the root future registers beside the adapter's own.
MaxOther == 1
\* Pulls on the incoming source.
MaxPulls == 4
\* Routes registered with one router.
MaxRoutes == 2
\* Largest integer held by a database value.
MaxDbInt == 2
\* Buffers the stream of a wasip3 message hands over before it is dropped.
MaxBodyReads == 2
\* Calls of poll_frame and of take_unstarted on one wasip3 body.
MaxFrameCalls == 5
MaxTakes == 2

Ids == 1..MaxRegs
Values == {"ok", "err"}

\* ------------------------------------------------------------------- state

VARIABLES
  WAKERS,     \* the process-wide registry: a sequence of registrations
  slot,       \* per registration, the content of its shared slot
  token,      \* per registration, the handle the future holds on its slot
  wakeCount,  \* per registration, how often its waker was invoked
  released,   \* per registration, how often its pollable was dropped
  cancelled,  \* registrations whose pollable a cancel or a guard drop released
  nextId,     \* registrations pushed so far
  pc,         \* position of run
  wakers,     \* run's local list of (slot, pollable, waker), drained entries
  ready,      \* run's local: the indices the readiness query reported
  polls,      \* polls of the root future in the current run
  queries,    \* readiness queries issued in the current run
  runs,       \* calls of run so far
  result,     \* what the last run returned
  resolved,   \* what the root future resolved with
  \* --- the outgoing sink (outgoing_body)
  chunks,          \* the chunks the caller has sent so far, in order
  offset,          \* bytes of the current chunk written so far
  flushing,        \* the current chunk's flush was issued and succeeded
  spc,             \* position of the sink's current send future
  stream_and_body, \* Outgoing.stream_and_body: "some" or "none"
  cancel_token,    \* Outgoing.cancel_token: a registration, or 0 for None
  wstate,          \* the output stream: "open" or "closed"
  written,         \* the bytes the resource accepted, in order
  sent,            \* per chunk, how its send resolved
  wsizes,          \* the sizes of the writes issued for the current chunk
  nflush,          \* per chunk, the flushes issued
  closedAt,        \* the first "closed" the resource reported in this chunk
  check,           \* what the latest check_write of the current send answered
  events,          \* what the sink's drop handler did, in order
  \* --- the incoming source (incoming_body)
  in_stream_and_body, \* Incoming.stream_and_body: "some" or "none"
  in_cancel_token,    \* Incoming.cancel_token: a registration, or 0 for None
  rstate,             \* the input stream: "open" or "closed"
  pulls,              \* per call of the closure: its read and what it returned
  reads,              \* the lengths asked of the input stream, read by read
  in_events,          \* what the source's drop handler did, in order
  \* --- the request router (http::Router)
  methods_map,  \* Router.methods_map: per method, the routes registered
  any_methods,  \* Router.any_methods: the routes registered for all methods
  route_on,     \* Router.route_on: "FullPath" or "Suffix"
  request,      \* the last request handled
  response,     \* what handling it returned, and the handler that was invoked
  \* --- decoding of database values (mysql::Decode, pg4::Decode)
  decode_call,  \* the last decode: the module, the type asked for, the value
  decoded,      \* what it returned
  \* --- the locks of crates/executor
  held,         \* the mutexes whose guard run holds from one statement to the next
  \* --- the send future (outgoing_request_send)
  state_response,     \* State.response: "handle" or "err"; "unbuilt" before
  state_cancel_token, \* State.cancel_token: a registration, or 0 for None
  handled,            \* calls of outgoing_handler::handle
  future_response,    \* what FutureIncomingResponse::get has: "absent", "ok", "err"
  send_pc,            \* position of the send future
  send_polls,         \* polls of the send future
  send_result,        \* what the send future resolved with
  \* --- across calls of run
  live_at_return,     \* the registrations that were live when run last
                      \* returned, kept until the next run ends an iteration
  \* --- the wasip3 body (wasip3_http_ext::IncomingBody)
  message,         \* the message: the buffers its stream hands over, its trailers
  body_state,      \* IncomingBody.state: "Unstarted", "Started" or "Empty"
  incoming_state,  \* IncomingState: "Ready", "Reading" or "Done"; "none" before
  read_phase,      \* what the boxed read future awaits: "read", "trailers"; "none"
  cursor,          \* buffers of the stream handed to completed reads
  reads_issued,    \* read futures created so far
  frames,          \* what the calls of poll_frame returned, in order
  takes,           \* what the calls of take_unstarted returned, in order
  \* --- a handler's return value (spin_wasip3_http::IntoResponse)
  returned,        \* the Result the handler returned
  outcome          \* what into_response made of it

execVars == <<WAKERS, slot, token, wakeCount, released, cancelled, nextId, pc,
              wakers, ready, polls, queries, runs, result, resolved>>
sinkVars == <<chunks, offset, flushing, spc, stream_and_body, cancel_token,
              wstate, written, sent, wsizes, nflush, closedAt, check, events>>
srcVars == <<in_stream_and_body, in_cancel_token, rstate, pulls, reads,
             in_events>>
adapterVars == <<sinkVars, srcVars>>
routerVars == <<methods_map, any_methods, route_on, request, response>>
dbVars == <<decode_call, decoded>>
lockVars == <<held>>
sendVars == <<state_response, state_cancel_token, handled, future_response,
              send_pc, send_polls, send_result>>
returnVars == <<live_at_return>>
bodyVars == <<message, body_state, incoming_state, read_phase, cursor,
              reads_issued, frames, takes>>
respVars == <<returned, outcome>>
wasip3Vars == <<bodyVars, respVars>>
libVars == <<routerVars, dbVars, lockVars, sendVars, returnVars, wasip3Vars>>
vars == <<execVars, adapterVars, libVars>>

regVars == <<WAKERS, slot, token, wakeCount, released, cancelled, nextId>>
runVars == <<pc, wakers, ready, polls, queries, runs, result, resolved>>

\* ----------------------------------------------------------------- helpers

Range(s) == {s[i] : i \in 1..Len(s)}

\* wrapped.lock().unwrap().take(): the slot afterwards.
Take(sl, id) == [sl EXCEPT ![id] = IF @ = "some" THEN "none" ELSE @]

\* DropTake with a pollable dropped whether or not the slot held one.
DropTake_NoCheck(sl, rel, id) ==
  [slot |-> Take(sl, id), released |-> [rel EXCEPT ![id] = @ + 1]]

\* DropTake with the slot left as it is: the drop of a guard cancels nothing.
DropTake_NoTake(sl, rel, id) == [slot |-> sl, released |-> rel]

\* drop(wrapped.lock().unwrap().take()): the slot is emptied and the pollable
\* it held, if any, is dropped.
DropTake(sl, rel, id) ==
  [slot |-> Take(sl, id),
   released |-> IF sl[id] = "some" THEN [rel EXCEPT ![id] = @ + 1] ELSE rel]

\* Registrations of the registry whose slot still holds a pollable.
Live == {id \in Range(WAKERS) : slot[id] = "some"}

\* ------------------------------------------------------- registry, tokens

\* push_waker (keep = FALSE) and push_waker_and_get_token (keep = TRUE), as
\* called by the root future while it is polled.
Push(keep) ==
  /\ pc = "poll"
  /\ nextId < MaxRegs
  /\ LET id == nextId + 1 IN
       /\ nextId' = id
       /\ slot' = [slot EXCEPT ![id] = "some"]
       /\ WAKERS' = Append(WAKERS, id)
       /\ token' = [token EXCEPT ![id] = IF keep THEN "token" ELSE "none"]
  /\ UNCHANGED <<wakeCount, released, cancelled>>
  /\ UNCHANGED runVars
  /\ UNCHANGED <<adapterVars, libVars>>

\* CancelOnDropToken::from(token).
IntoGuard(id) ==
  /\ pc = "poll"
  /\ token[id] = "token"
  /\ token' = [token EXCEPT ![id] = "guard"]
  /\ UNCHANGED <<WAKERS, slot, wakeCount, released, cancelled, nextId>>
  /\ UNCHANGED runVars
  /\ UNCHANGED <<adapterVars, libVars>>

\* The body shared by CancelToken::cancel and CancelOnDropToken::drop.
Release(id) ==
  LET r == DropTake(slot, released, id) IN
    /\ slot' = r.slot
    /\ released' = r.released
    /\ cancelled' = IF slot[id] = "some" THEN cancelled \cup {id} ELSE cancelled
    /\ token' = [token EXCEPT ![id] = "spent"]
    /\ UNCHANGED <<WAKERS, wakeCount, nextId>>

\* CancelToken::cancel.
Cancel(id) ==
  /\ pc = "poll"
  /\ token[id] = "token"
  /\ Release(id)
  /\ UNCHANGED runVars
  /\ UNCHANGED <<adapterVars, libVars>>

\* Drop of a CancelOnDropToken.
DropGuard(id) ==
  /\ pc = "poll"
  /\ token[id] = "guard"
  /\ Release(id)
  /\ UNCHANGED runVars
  /\ UNCHANGED <<adapterVars, libVars>>

\* --------------------------------------------------------------------- run

\* RunStart with the registry emptied at the start of each call.
RunStart_FreshRegistry ==
  /\ pc \in {"idle", "done"}
  /\ runs < MaxRuns
  /\ runs' = runs + 1
  /\ pc' = "poll"
  /\ polls' = 0
  /\ queries' = 0
  /\ WAKERS' = <<>>
  /\ UNCHANGED <<wakers, ready, result, resolved>>
  /\ UNCHANGED <<slot, token, wakeCount, released, cancelled, nextId>>
  /\ UNCHANGED <<adapterVars, libVars>>

\* run is called: the future is pinned and polled for the first time.
RunStart ==
  /\ pc \in {"idle", "done"}
  /\ runs < MaxRuns
  /\ runs' = runs + 1
  /\ pc' = "poll"
  /\ polls' = 0
  /\ queries' = 0
  /\ UNCHANGED <<wakers, ready, result, resolved>>
  /\ UNCHANGED regVars
  /\ UNCHANGED <<adapterVars, libVars>>

\* The root future returns Poll::Pending.
FutPending ==
  /\ pc = "poll"
  /\ polls < MaxPolls
  /\ polls' = polls + 1
  /\ pc' = "drain"
  /\ UNCHANGED <<wakers, ready, queries, runs, result, resolved>>
  /\ UNCHANGED regVars
  /\ UNCHANGED <<adapterVars, libVars>>

\* RunReturn with the value replaced.
RunReturn_Const(v) == "ok"

\* What run returns when the future resolved with v.
RunReturn(v) == v

\* FutReady with the registry cleared on the way out.
FutReady_ClearsRegistry(v) ==
  /\ pc = "poll"
  /\ resolved' = v
  /\ result' = RunReturn(v)
  /\ pc' = "done"
  /\ WAKERS' = <<>>
  /\ live_at_return' = Live
  /\ UNCHANGED <<wakers, ready, polls, queries, runs>>
  /\ UNCHANGED <<slot, token, wakeCount, released, cancelled, nextId>>
  /\ UNCHANGED <<adapterVars, routerVars, dbVars, lockVars, sendVars, wasip3Vars>>

\* The root future returns Poll::Ready(v): run breaks out of its loop.
FutReady(v) ==
  /\ pc = "poll"
  /\ resolved' = v
  /\ result' = RunReturn(v)
  /\ pc' = "done"
  /\ live_at_return' = Live
  /\ UNCHANGED <<wakers, ready, polls, queries, runs>>
  /\ UNCHANGED regVars
  /\ UNCHANGED <<adapterVars, routerVars, dbVars, lockVars, sendVars, wasip3Vars>>

\* Drained with the emptied slots kept.
Drained_NoFilter(W, sl) == W

\* filter_map over the drained registry: the entries whose slot held a
\* pollable, in registry order.
Drained(W, sl) == SelectSeq(W, LAMBDA id : sl[id] = "some")

\* AfterAssert with the assertion left out.
AfterAssert_NoAssert(ws) == "query"

\* Position after the assertion on the drained list.
AfterAssert(ws) == IF ws = <<>> THEN "panicked" ELSE "query"

\* mem::take of the registry, the take of every slot, and the assertion.
Drain ==
  /\ pc = "drain"
  /\ LET ws == Drained(WAKERS, slot) IN
       /\ wakers' = ws
       /\ slot' = [id \in Ids |-> IF id \in Range(ws) THEN "none" ELSE slot[id]]
       /\ pc' = AfterAssert(ws)
  /\ WAKERS' = <<>>
  /\ UNCHANGED <<token, wakeCount, released, cancelled, nextId>>
  /\ UNCHANGED <<ready, polls, queries, runs, result, resolved>>
  /\ UNCHANGED <<adapterVars, libVars>>

\* The answers io::poll::poll may give for n pollables: it blocks until at
\* least one is ready and returns their indices.
PollAnswers(n) == (SUBSET (1..n)) \ {{}}

\* Query with every pollable of the drained list polled on its own.
Query_OneByOne ==
  /\ pc = "query"
  /\ \E R \in PollAnswers(Len(wakers)) : ready' = R
  /\ queries' = queries + Len(wakers)
  /\ pc' = "fire"
  /\ UNCHANGED <<wakers, polls, runs, result, resolved>>
  /\ UNCHANGED regVars
  /\ UNCHANGED <<adapterVars, libVars>>

\* The one batched readiness query over the pollables of the drained list.
Query ==
  /\ pc = "query"
  /\ \E R \in PollAnswers(Len(wakers)) : ready' = R
  /\ queries' = queries + 1
  /\ pc' = "fire"
  /\ UNCHANGED <<wakers, polls, runs, result, resolved>>
  /\ UNCHANGED regVars
  /\ UNCHANGED <<adapterVars, libVars>>

\* NotReady with the ready entries put back too.
NotReady_KeepsAll(ws, R) == ws

\* The entries the loop over zip(ready, wakers) puts back, in order.
NotReady(ws, R) ==
  LET idx == SelectSeq([i \in 1..Len(ws) |-> i], LAMBDA i : i \notin R)
  IN [k \in 1..Len(idx) |-> ws[idx[k]]]

\* Fired with the indices taken against a list one entry longer in front, as
\* the registry is when its first entry was cancelled.
Fired_Shifted(ws, R) == {ws[i - 1] : i \in (R \cap (1..Len(ws))) \ {1}}

\* The entries whose waker the loop invokes.
Fired(ws, R) == {ws[i] : i \in R \cap (1..Len(ws))}

\* The loop over zip(ready, wakers) and the write-back of the registry.
Fire ==
  /\ pc = "fire"
  /\ LET back == NotReady(wakers, ready)
         hit == Fired(wakers, ready)
     IN /\ wakeCount' = [id \in Ids |-> IF id \in hit THEN wakeCount[id] + 1
                                         ELSE wakeCount[id]]
        /\ released' = [id \in Ids |-> IF id \in hit THEN released[id] + 1
                                        ELSE released[id]]
        /\ slot' = [id \in Ids |-> IF id \in Range(back) THEN "some" ELSE slot[id]]
        /\ WAKERS' = back
  /\ wakers' = <<>>
  /\ ready' = {}
  /\ pc' = "poll"
  /\ live_at_return' = {}
  /\ UNCHANGED <<token, cancelled, nextId>>
  /\ UNCHANGED <<polls, queries, runs, result, resolved>>
  /\ UNCHANGED <<adapterVars, routerVars, dbVars, lockVars, sendVars, wasip3Vars>>

\* ------------------------------------------- cancels during an iteration

\* The positions of run inside its Pending arm.
InIteration == {"drain", "draining", "query", "polling", "fire", "written"}

\* CancelToken::cancel called while run is inside its Pending arm: by the
\* waker run invokes, or by another thread (the registry and the slots are
\* behind mutexes, and the tokens can be sent across threads).
ConcCancel(id) ==
  /\ pc \in InIteration
  /\ token[id] = "token"
  /\ Release(id)
  /\ UNCHANGED runVars
  /\ UNCHANGED <<adapterVars, libVars>>

\* Drop of a CancelOnDropToken while run is inside its Pending arm.
ConcDropGuard(id) ==
  /\ pc \in InIteration
  /\ token[id] = "guard"
  /\ Release(id)
  /\ UNCHANGED runVars
  /\ UNCHANGED <<adapterVars, libVars>>

\* ------------------------------------- the Pending arm, lock by lock

\* The statement that drains the registry: WAKERS is locked, its list taken
\* and filtered, every slot locked for its own take only; the guard of
\* WAKERS is a temporary of the statement and lives to its end.
LockDrain ==
  /\ pc = "drain"
  /\ held = {}
  /\ held' = {"WAKERS"}
  /\ LET ws == Drained(WAKERS, slot) IN
       /\ wakers' = ws
       /\ slot' = [id \in Ids |-> IF id \in Range(ws) THEN "none" ELSE slot[id]]
  /\ WAKERS' = <<>>
  /\ pc' = "draining"
  /\ UNCHANGED <<token, wakeCount, released, cancelled, nextId>>
  /\ UNCHANGED <<ready, polls, queries, runs, result, resolved>>
  /\ UNCHANGED <<adapterVars, routerVars, dbVars, sendVars, returnVars, wasip3Vars>>

\* UnlockDrain with the guard of WAKERS kept in a variable of the arm.
UnlockDrain_KeepsGuard ==
  /\ pc = "draining"
  /\ held' = held
  /\ pc' = AfterAssert(wakers)
  /\ UNCHANGED <<wakers, ready, polls, queries, runs, result, resolved>>
  /\ UNCHANGED regVars
  /\ UNCHANGED <<adapterVars, routerVars, dbVars, sendVars, returnVars, wasip3Vars>>

\* The end of that statement, where the guard is dropped, and the assertion.
UnlockDrain ==
  /\ pc = "draining"
  /\ held' = held \ {"WAKERS"}
  /\ pc' = AfterAssert(wakers)
  /\ UNCHANGED <<wakers, ready, polls, queries, runs, result, resolved>>
  /\ UNCHANGED regVars
  /\ UNCHANGED <<adapterVars, routerVars, dbVars, sendVars, returnVars, wasip3Vars>>

\* io::poll::poll is called and blocks.
QueryCall ==
  /\ pc = "query"
  /\ pc' = "polling"
  /\ UNCHANGED <<wakers, ready, polls, queries, runs, result, resolved>>
  /\ UNCHANGED regVars
  /\ UNCHANGED <<adapterVars, libVars>>

\* io::poll::poll returns the indices that are ready.
QueryReturn ==
  /\ pc = "polling"
  /\ \E R \in PollAnswers(Len(wakers)) : ready' = R
  /\ queries' = queries + 1
  /\ pc' = "fire"
  /\ UNCHANGED <<wakers, polls, runs, result, resolved>>
  /\ UNCHANGED regVars
  /\ UNCHANGED <<adapterVars, libVars>>

\* The loop over zip(ready, wakers), every slot locked for its own store only,
\* and the statement that writes the registry back, up to the assignment.
LoopAndWriteBack ==
  /\ pc = "fire"
  /\ held = {}
  /\ held' = {"WAKERS"}
  /\ LET back == NotReady(wakers, ready)
         hit == Fired(wakers, ready)
     IN /\ wakeCount' = [id \in Ids |-> IF id \in hit THEN wakeCount[id] + 1
                                         ELSE wakeCount[id]]
        /\ released' = [id \in Ids |-> IF id \in hit THEN released[id] + 1
                                        ELSE released[id]]
        /\ slot' = [id \in Ids |-> IF id \in Range(back) THEN "some" ELSE slot[id]]
        /\ WAKERS' = back
  /\ wakers' = <<>>
  /\ ready' = {}
  /\ pc' = "written"
  /\ live_at_return' = {}
  /\ UNCHANGED <<token, cancelled, nextId>>
  /\ UNCHANGED <<polls, queries, runs, result, resolved>>
  /\ UNCHANGED <<adapterVars, routerVars, dbVars, sendVars, wasip3Vars>>

\* The end of the write-back, where the guard is dropped; the loop of run
\* goes round.
UnlockWriteBack ==
  /\ pc = "written"
  /\ held' = held \ {"WAKERS"}
  /\ pc' = "poll"
  /\ UNCHANGED <<wakers, ready, polls, queries, runs, result, resolved>>
  /\ UNCHANGED regVars
  /\ UNCHANGED <<adapterVars, routerVars, dbVars, sendVars, returnVars, wasip3Vars>>

\* A push has to lock WAKERS.
PushBlocked == "WAKERS" \in held

\* push_waker / push_waker_and_get_token called while run is inside its
\* Pending arm: by the waker run invokes, or by another thread.
ConcPush(keep) ==
  /\ pc \in InIteration
  /\ ~PushBlocked
  /\ nextId < MaxRegs
  /\ LET id == nextId + 1 IN
       /\ nextId' = id
       /\ slot' = [slot EXCEPT ![id] = "some"]
       /\ WAKERS' = Append(WAKERS, id)
       /\ token' = [token EXCEPT ![id] = IF keep THEN "token" ELSE "none"]
  /\ UNCHANGED <<wakeCount, released, cancelled>>
  /\ UNCHANGED runVars
  /\ UNCHANGED <<adapterVars, libVars>>

\* ------------------------------------------------------- the outgoing sink

Min(a, b) == IF a < b THEN a ELSE b

\* A chunk of n bytes; byte i of chunk c is written <<c, i>>, so that every
\* byte of a behaviour is distinct.
MkChunk(c, n) == [i \in 1..n |-> <<c, i>>]

\* The concatenation of the first n chunks.
RECURSIVE Concat(_, _)
Concat(cs, n) == IF n = 0 THEN <<>> ELSE Concat(cs, n - 1) \o cs[n]

\* The answers check_write may give: a closed stream stays closed; an open
\* one reports a capacity, or that it was closed, or that it failed.
CheckWrite(ws) ==
  IF ws = "closed"
  THEN {[t |-> "closed", n |-> 0]}
  ELSE {[t |-> "ok", n |-> n] : n \in 0..MaxCap}
       \cup {[t |-> "closed", n |-> 0], [t |-> "failed", n |-> 0]}

\* The answers of a write or a flush issued right after a positive capacity.
OpOutcomes == {"ok", "closed", "failed"}

\* The stream after an answer: closed and failed streams stay closed.
StreamAfter(ws, ans) == IF ans = "ok" THEN ws ELSE "closed"

\* WriteCount with the capacity ignored: the rest of the chunk in one write.
WriteCount_IgnoresCapacity(count, len, off) == len - off

\* The bytes one write carries: min(count, chunk.len() - offset).
WriteCount(count, len, off) == Min(count, len - off)

\* ClosedResult with the guard on the offset left out.
ClosedResult_AlwaysErr(off, len) == "err"

\* ClosedResult with closed taken for success at any offset.
ClosedResult_AlwaysOk(off, len) == "ok"

\* How a chunk resolves when check_write reports closed.
ClosedResult(off, len) == IF off = len THEN "ok" ELSE "err"

\* FlushClosedResult with closed at the flush taken for a failure.
FlushClosedResult_Err == "err"

\* How a chunk resolves when its flush reports closed.
FlushClosedResult == "ok"

\* Branch with the flush left out: a chunk wholly written is done.
Branch_NoFlush(cw, off, len, fl) ==
  CASE cw.t = "ok" /\ cw.n = 0 -> "suspend"
    [] cw.t = "ok" /\ cw.n > 0 /\ off = len -> "ok"
    [] cw.t = "ok" /\ cw.n > 0 /\ off # len -> "write"
    [] cw.t = "closed" -> IF off = len THEN "ok" ELSE "err"
    [] OTHER -> "err"

\* Branch with the flag flushing ignored: a chunk wholly written is flushed
\* on every positive capacity.
Branch_FlushAgain(cw, off, len, fl) ==
  CASE cw.t = "ok" /\ cw.n = 0 -> "suspend"
    [] cw.t = "ok" /\ cw.n > 0 /\ off = len -> "flush"
    [] cw.t = "ok" /\ cw.n > 0 /\ off # len -> "write"
    [] cw.t = "closed" -> ClosedResult(off, len)
    [] OTHER -> "err"

\* Branch with a chunk of no bytes done on the first positive capacity,
\* without a flush.
Branch_EmptyChunkSkipsFlush(cw, off, len, fl) ==
  CASE cw.t = "ok" /\ cw.n = 0 -> "suspend"
    [] cw.t = "ok" /\ cw.n > 0 /\ off = len /\ (fl \/ len = 0) -> "ok"
    [] cw.t = "ok" /\ cw.n > 0 /\ off = len /\ ~fl /\ len # 0 -> "flush"
    [] cw.t = "ok" /\ cw.n > 0 /\ off # len -> "write"
    [] cw.t = "closed" -> ClosedResult(off, len)
    [] OTHER -> "err"

\* Branch with a capacity of 0 treated as any other capacity.
Branch_NoBackpressure(cw, off, len, fl) ==
  CASE cw.t = "ok" /\ off = len /\ fl -> "ok"
    [] cw.t = "ok" /\ off = len /\ ~fl -> "flush"
    [] cw.t = "ok" /\ off # len -> "write"
    [] cw.t = "closed" -> ClosedResult(off, len)
    [] OTHER -> "err"

\* The arm of the loop body that check_write's answer selects.
Branch(cw, off, len, fl) ==
  CASE cw.t = "ok" /\ cw.n = 0 -> "suspend"
    [] cw.t = "ok" /\ cw.n > 0 /\ off = len /\ fl -> "ok"
    [] cw.t = "ok" /\ cw.n > 0 /\ off = len /\ ~fl -> "flush"
    [] cw.t = "ok" /\ cw.n > 0 /\ off # len -> "write"
    [] cw.t = "closed" -> ClosedResult(off, len)
    [] OTHER -> "err"

\* The chunk being sent (0: none yet), and its length.
cur == Len(chunks)
CurLen == Len(chunks[cur])

NoClose == [src |-> "none", off |-> 0, writes |-> 0, flushes |-> 0]

\* No check_write made yet by the current send.
NoCheck == [t |-> "none", n |-> 0]

\* closedAt after the resource reported closed from src, the calls issued so
\* far being writes and flushes.
NoteClosed(src, ans, writes, flushes) ==
  IF ans = "closed" /\ closedAt.src = "none"
  THEN [src |-> src, off |-> offset, writes |-> writes, flushes |-> flushes]
  ELSE closedAt

\* The send of the current chunk resolves with r (Poll::Ready).
Resolve(r) ==
  /\ sent' = [sent EXCEPT ![cur] = r]
  /\ spc' = IF r = "ok" THEN "idle" ELSE "failed"

\* The caller sends the next chunk, of n bytes: a new send future, polled at
\* once.
SinkSend(n) ==
  /\ pc = "poll"
  /\ spc = "idle"
  /\ stream_and_body = "some"
  /\ cur < MaxChunks
  /\ chunks' = Append(chunks, MkChunk(cur + 1, n))
  /\ sent' = Append(sent, "none")
  /\ nflush' = Append(nflush, 0)
  /\ offset' = 0
  /\ flushing' = FALSE
  /\ spc' = "loop"
  /\ wsizes' = <<>>
  /\ closedAt' = NoClose
  /\ check' = NoCheck
  /\ UNCHANGED <<stream_and_body, cancel_token, wstate, written, events>>
  /\ UNCHANGED execVars
  /\ UNCHANGED <<srcVars, libVars>>

\* The root future is polled again and polls the suspended send future.
SinkRepoll ==
  /\ pc = "poll"
  /\ spc = "suspended"
  /\ spc' = "loop"
  /\ UNCHANGED <<chunks, offset, flushing, stream_and_body, cancel_token,
                 wstate, written, sent, wsizes, nflush, closedAt, check, events>>
  /\ UNCHANGED execVars
  /\ UNCHANGED <<srcVars, libVars>>

\* check_write reports 0: register the stream's pollable, keep the guard
\* (dropping the one held before), return Pending.
SinkSuspend ==
  /\ pc = "poll"
  /\ spc = "loop"
  /\ \E cw \in CheckWrite(wstate) :
       /\ Branch(cw, offset, CurLen, flushing) = "suspend"
       /\ check' = cw
  /\ nextId < MaxRegs
  /\ polls < MaxPolls
  /\ LET id == nextId + 1
         old == cancel_token
         sl1 == [slot EXCEPT ![id] = "some"]
         r == IF old = 0 THEN [slot |-> sl1, released |-> released]
              ELSE DropTake(sl1, released, old)
     IN /\ nextId' = id
        /\ WAKERS' = Append(WAKERS, id)
        /\ slot' = r.slot
        /\ released' = r.released
        /\ cancelled' = IF old # 0 /\ slot[old] = "some"
                        THEN cancelled \cup {old} ELSE cancelled
        /\ token' = [i \in Ids |-> IF i = id THEN "guard"
                                   ELSE IF i = old THEN "spent" ELSE token[i]]
        /\ cancel_token' = id
  /\ spc' = "suspended"
  /\ polls' = polls + 1
  /\ pc' = "drain"
  /\ UNCHANGED <<wakeCount, wakers, ready, queries, runs, result, resolved>>
  /\ UNCHANGED <<chunks, offset, flushing, stream_and_body, wstate,
                 written, sent, wsizes, nflush, closedAt, events>>
  /\ UNCHANGED <<srcVars, libVars>>

\* Positive capacity, bytes left: one write of WriteCount bytes from offset.
SinkWrite ==
  /\ pc = "poll"
  /\ spc = "loop"
  /\ \E cw \in CheckWrite(wstate), wr \in OpOutcomes :
       /\ Branch(cw, offset, CurLen, flushing) = "write"
       /\ check' = cw
       /\ LET count == WriteCount(cw.n, CurLen, offset) IN
            /\ wsizes' = Append(wsizes, count)
            /\ wstate' = StreamAfter(wstate, wr)
            /\ closedAt' = NoteClosed("write", wr, Len(wsizes) + 1, nflush[cur])
            /\ IF wr = "ok"
               THEN /\ written' = written \o SubSeq(chunks[cur], offset + 1, offset + count)
                    /\ offset' = offset + count
                    /\ UNCHANGED <<sent, spc>>
               ELSE /\ Resolve("err")
                    /\ UNCHANGED <<written, offset>>
  /\ UNCHANGED <<chunks, flushing, stream_and_body, cancel_token, nflush, events>>
  /\ UNCHANGED execVars
  /\ UNCHANGED <<srcVars, libVars>>

\* Positive capacity, the whole chunk written, no flush yet: flush.
SinkFlush ==
  /\ pc = "poll"
  /\ spc = "loop"
  /\ \E cw \in CheckWrite(wstate), fr \in OpOutcomes :
       /\ Branch(cw, offset, CurLen, flushing) = "flush"
       /\ check' = cw
       /\ nflush' = [nflush EXCEPT ![cur] = @ + 1]
       /\ wstate' = StreamAfter(wstate, fr)
       /\ closedAt' = NoteClosed("flush", fr, Len(wsizes), nflush[cur] + 1)
       /\ CASE fr = "ok" -> flushing' = TRUE /\ UNCHANGED <<sent, spc>>
            [] fr = "closed" -> Resolve(FlushClosedResult) /\ UNCHANGED flushing
            [] OTHER -> Resolve("err") /\ UNCHANGED flushing
  /\ UNCHANGED <<chunks, offset, stream_and_body, cancel_token, written,
                 wsizes, events>>
  /\ UNCHANGED execVars
  /\ UNCHANGED <<srcVars, libVars>>

\* The arms that end the poll with Ready and issue no call: positive capacity
\* after the flush, closed, or failed.
SinkResolve ==
  /\ pc = "poll"
  /\ spc = "loop"
  /\ \E cw \in CheckWrite(wstate) :
       LET b == Branch(cw, offset, CurLen, flushing) IN
         /\ b \in {"ok", "err"}
         /\ Resolve(b)
         /\ check' = cw
         /\ wstate' = StreamAfter(wstate, cw.t)
         /\ closedAt' = NoteClosed("check", cw.t, Len(wsizes), nflush[cur])
  /\ UNCHANGED <<chunks, offset, flushing, stream_and_body, cancel_token,
                 written, wsizes, nflush, events>>
  /\ UNCHANGED execVars
  /\ UNCHANGED <<srcVars, libVars>>

\* DropSteps with the body finished before the cancel.
DropSteps_FinishFirst == <<"stream", "finish", "cancel">>

\* The order in which Outgoing::drop acts.
DropSteps == <<"cancel", "stream", "finish">>

\* The trailers Outgoing::drop hands to OutgoingBody::finish.
FinishTrailers == "none"

\* One act of a drop handler on st = [slot, released, cancelled, token,
\* events], for the guard ct and the pair sb the handler found.  An event
\* records whether the adapter's registration still held its pollable.
DropStep(st, op, ct, sb) ==
  LET live == ct # 0 /\ st.slot[ct] = "some" IN
  CASE op = "cancel" /\ ct # 0 ->
         LET r == DropTake(st.slot, st.released, ct) IN
           [slot |-> r.slot, released |-> r.released,
            cancelled |-> IF live THEN st.cancelled \cup {ct} ELSE st.cancelled,
            token |-> [st.token EXCEPT ![ct] = "spent"],
            events |-> Append(st.events,
                              [op |-> "cancel", live |-> live, trailers |-> "-"])]
    [] op \in {"stream", "finish"} /\ sb = "some" ->
         [st EXCEPT !.events =
            Append(@, [op |-> op, live |-> live,
                       trailers |-> IF op = "finish" THEN FinishTrailers ELSE "-"])]
    [] OTHER -> st

RECURSIVE ApplyDrop(_, _, _, _)
ApplyDrop(st, steps, ct, sb) ==
  IF steps = <<>> THEN st
  ELSE ApplyDrop(DropStep(st, Head(steps), ct, sb), Tail(steps), ct, sb)

\* The sink is dropped: Outgoing::drop.
SinkDrop ==
  /\ pc = "poll"
  /\ spc \in {"idle", "suspended", "failed"}
  /\ stream_and_body = "some"
  /\ LET st == ApplyDrop([slot |-> slot, released |-> released,
                          cancelled |-> cancelled, token |-> token,
                          events |-> events],
                         DropSteps, cancel_token, stream_and_body)
     IN /\ slot' = st.slot
        /\ released' = st.released
        /\ cancelled' = st.cancelled
        /\ token' = st.token
        /\ events' = st.events
  /\ cancel_token' = 0
  /\ stream_and_body' = "none"
  /\ spc' = "dropped"
  /\ UNCHANGED <<WAKERS, wakeCount, nextId>>
  /\ UNCHANGED runVars
  /\ UNCHANGED <<chunks, offset, flushing, wstate, written, sent,
                 wsizes, nflush, closedAt, check>>
  /\ UNCHANGED <<srcVars, libVars>>

\* What the root future that drives the sink resolves with.
SinkValue ==
  IF \A c \in 1..Len(chunks) : sent[c] = "ok" THEN "ok" ELSE "err"

\* The root future, its sink dropped, returns Ready.
SinkFutReady ==
  /\ stream_and_body = "none"
  /\ FutReady(SinkValue)

\* Another part of the root future registers a pollable of its own, before
\* the first chunk is sent.
SinkOtherPush ==
  /\ cur = 0
  /\ nextId < MaxOther
  /\ Push(FALSE)

\* --------------------------------------------------------- the send future

notSend == <<adapterVars, routerVars, dbVars, lockVars, returnVars,
            wasip3Vars>>

\* outgoing_request_send is called: the request is handed to
\* outgoing_handler::handle, which returns the handle of the future response
\* (r = "handle") or fails at once (r = "err").
SendBuild(r) ==
  /\ pc = "poll"
  /\ send_pc = "unbuilt"
  /\ handled' = handled + 1
  /\ state_response' = r
  /\ send_pc' = "built"
  /\ UNCHANGED <<state_cancel_token, future_response, send_polls, send_result>>
  /\ UNCHANGED execVars
  /\ UNCHANGED notSend

\* The host completes the request: the handle now has a value.
SendHostAnswers(v) ==
  /\ state_response = "handle"
  /\ future_response = "absent"
  /\ future_response' = v
  /\ UNCHANGED <<state_response, state_cancel_token, handled, send_pc,
                 send_polls, send_result>>
  /\ UNCHANGED execVars
  /\ UNCHANGED notSend

\* PollOutcome with a handle that has no value yet taken for a failure.
PollOutcome_AbsentIsErr(resp, got) ==
  IF resp = "err" THEN "dispatch_err"
  ELSE IF got = "absent" THEN "err" ELSE got

\* What one poll of the send future returns: the error of the dispatch, the
\* value of the handle, or "pending" when the handle has none.
PollOutcome(resp, got) ==
  IF resp = "err" THEN "dispatch_err"
  ELSE IF got = "absent" THEN "pending" ELSE got

\* A poll of the send future that returns Ready.
SendResolve ==
  /\ pc = "poll"
  /\ send_pc \in {"built", "suspended"}
  /\ PollOutcome(state_response, future_response) # "pending"
  /\ send_result' = PollOutcome(state_response, future_response)
  /\ send_polls' = send_polls + 1
  /\ send_pc' = "resolved"
  /\ UNCHANGED <<state_response, state_cancel_token, handled, future_response>>
  /\ UNCHANGED execVars
  /\ UNCHANGED notSend

\* A poll of the send future that finds no value: register the handle's
\* pollable, keep the guard (dropping the one held before), return Pending.
SendSuspend ==
  /\ pc = "poll"
  /\ send_pc \in {"built", "suspended"}
  /\ PollOutcome(state_response, future_response) = "pending"
  /\ nextId < MaxRegs
  /\ polls < MaxPolls
  /\ LET id == nextId + 1
         old == state_cancel_token
         sl1 == [slot EXCEPT ![id] = "some"]
         r == IF old = 0 THEN [slot |-> sl1, released |-> released]
              ELSE DropTake(sl1, released, old)
     IN /\ nextId' = id
        /\ WAKERS' = Append(WAKERS, id)
        /\ slot' = r.slot
        /\ released' = r.released
        /\ cancelled' = IF old # 0 /\ slot[old] = "some"
                        THEN cancelled \cup {old} ELSE cancelled
        /\ token' = [i \in Ids |-> IF i = id THEN "guard"
                                   ELSE IF i = old THEN "spent" ELSE token[i]]
        /\ state_cancel_token' = id
  /\ send_pc' = "suspended"
  /\ send_polls' = send_polls + 1
  /\ polls' = polls + 1
  /\ pc' = "drain"
  /\ UNCHANGED <<wakeCount, wakers, ready, queries, runs, result, resolved>>
  /\ UNCHANGED <<state_response, handled, future_response, send_result>>
  /\ UNCHANGED notSend

\* The send future is dropped: State::drop cancels, then drops the handle.
SendDrop ==
  /\ pc = "poll"
  /\ send_pc \in {"suspended", "resolved"}
  /\ LET ct == state_cancel_token
         r == IF ct = 0 THEN [slot |-> slot, released |-> released]
              ELSE DropTake(slot, released, ct)
     IN /\ slot' = r.slot
        /\ released' = r.released
        /\ cancelled' = IF ct # 0 /\ slot[ct] = "some"
                        THEN cancelled \cup {ct} ELSE cancelled
        /\ token' = [i \in Ids |-> IF i = ct THEN "spent" ELSE token[i]]
  /\ state_cancel_token' = 0
  /\ state_response' = "taken"
  /\ send_pc' = "dropped"
  /\ UNCHANGED <<WAKERS, wakeCount, nextId>>
  /\ UNCHANGED runVars
  /\ UNCHANGED <<handled, future_response, send_polls, send_result>>
  /\ UNCHANGED notSend

\* The root future, its send future dropped, returns Ready.
SendFutReady ==
  /\ send_pc = "dropped"
  /\ FutReady(IF send_result = "ok" THEN "ok" ELSE "err")

\* Another part of the root future registers a pollable of its own.
SendOtherPush ==
  /\ send_pc \in {"unbuilt", "built"}
  /\ nextId < MaxOther
  /\ Push(FALSE)

\* ------------------------------------------------------ the incoming source

\* The length asked of every read.
READ_SIZE == 16 * 1024

\* The lengths of the non-empty buffers a read may return.
ReadLens == {1, READ_SIZE}

\* The answers stream.read(READ_SIZE) may give: a closed stream stays closed;
\* an open one returns a buffer of at most READ_SIZE bytes, empty when no
\* byte is available, or reports that it was closed, or that it failed.
ReadAnswers(rs) ==
  IF rs = "closed"
  THEN {[a |-> "closed", n |-> 0]}
  ELSE {[a |-> "data", n |-> n] : n \in {0} \cup ReadLens}
       \cup {[a |-> "closed", n |-> 0], [a |-> "failed", n |-> 0]}

\* PullResult with the test for an empty buffer left out.
PullResult_NoEmptyCheck(pair, ans) ==
  IF pair = "some"
  THEN CASE ans.a = "data" -> [r |-> "chunk", n |-> ans.n]
         [] ans.a = "closed" -> [r |-> "eos", n |-> 0]
         [] OTHER -> [r |-> "err", n |-> 0]
  ELSE [r |-> "eos", n |-> 0]

\* PullResult with the arms for closed and for a failure exchanged.
PullResult_ArmsSwapped(pair, ans) ==
  IF pair = "some"
  THEN CASE ans.a = "data" /\ ans.n = 0 -> [r |-> "pending", n |-> 0]
         [] ans.a = "data" /\ ans.n > 0 -> [r |-> "chunk", n |-> ans.n]
         [] ans.a = "closed" -> [r |-> "err", n |-> 0]
         [] OTHER -> [r |-> "eos", n |-> 0]
  ELSE [r |-> "eos", n |-> 0]

\* PullResult with a failure of the read taken for the end of the stream.
PullResult_SwallowsFailure(pair, ans) ==
  IF pair = "some"
  THEN CASE ans.a = "data" /\ ans.n = 0 -> [r |-> "pending", n |-> 0]
         [] ans.a = "data" /\ ans.n > 0 -> [r |-> "chunk", n |-> ans.n]
         [] OTHER -> [r |-> "eos", n |-> 0]
  ELSE [r |-> "eos", n |-> 0]

\* PullResult with only the first byte of a buffer yielded.
PullResult_FirstByteOnly(pair, ans) ==
  IF pair = "some"
  THEN CASE ans.a = "data" /\ ans.n = 0 -> [r |-> "pending", n |-> 0]
         [] ans.a = "data" /\ ans.n > 0 -> [r |-> "chunk", n |-> 1]
         [] ans.a = "closed" -> [r |-> "eos", n |-> 0]
         [] OTHER -> [r |-> "err", n |-> 0]
  ELSE [r |-> "eos", n |-> 0]

\* What one call of the stream's closure returns, given the pair it holds and
\* the answer of its read: Pending, a chunk, an error item or None.
PullResult(pair, ans) ==
  IF pair = "some"
  THEN CASE ans.a = "data" /\ ans.n = 0 -> [r |-> "pending", n |-> 0]
         [] ans.a = "data" /\ ans.n > 0 -> [r |-> "chunk", n |-> ans.n]
         [] ans.a = "closed" -> [r |-> "eos", n |-> 0]
         [] OTHER -> [r |-> "err", n |-> 0]
  ELSE [r |-> "eos", n |-> 0]

\* ReadsOf with a second read issued ahead of the next pull.
ReadsOf_ReadAhead(pair) ==
  IF pair = "some" THEN <<READ_SIZE, READ_SIZE>> ELSE <<>>

\* The reads one call of the closure issues, each with the length it asks.
ReadsOf(pair) == IF pair = "some" THEN <<READ_SIZE>> ELSE <<>>

\* The consumer pulls: one call of the closure of stream::poll_fn, whose read
\* answers ans.
PullWith(ans) ==
  /\ pc = "poll"
  /\ in_stream_and_body = "some"
  /\ Len(pulls) < MaxPulls
  /\ LET out == PullResult(in_stream_and_body, ans)
         id == nextId + 1
         old == in_cancel_token
         sl1 == [slot EXCEPT ![id] = "some"]
         r == IF old = 0 THEN [slot |-> sl1, released |-> released]
              ELSE DropTake(sl1, released, old)
     IN /\ rstate' = StreamAfter(rstate, IF ans.a = "data" THEN "ok" ELSE ans.a)
        /\ reads' = reads \o ReadsOf(in_stream_and_body)
        /\ IF out.r = "pending"
           THEN /\ nextId < MaxRegs
                /\ polls < MaxPolls
                /\ nextId' = id
                /\ WAKERS' = Append(WAKERS, id)
                /\ slot' = r.slot
                /\ released' = r.released
                /\ cancelled' = IF old # 0 /\ slot[old] = "some"
                                THEN cancelled \cup {old} ELSE cancelled
                /\ token' = [i \in Ids |-> IF i = id THEN "guard"
                                           ELSE IF i = old THEN "spent"
                                           ELSE token[i]]
                /\ in_cancel_token' = id
                /\ polls' = polls + 1
                /\ pc' = "drain"
                /\ pulls' = Append(pulls, [read |-> ans, out |-> out, reg |-> id])
           ELSE /\ pulls' = Append(pulls, [read |-> ans, out |-> out, reg |-> 0])
                /\ UNCHANGED <<nextId, WAKERS, slot, released, cancelled,
                               token, in_cancel_token, polls, pc>>
  /\ UNCHANGED <<wakeCount, wakers, ready, queries, runs, result, resolved>>
  /\ UNCHANGED <<in_stream_and_body, in_events>>
  /\ UNCHANGED <<sinkVars, libVars>>

\* A pull against any input stream.
SrcPull == \E ans \in ReadAnswers(rstate) : PullWith(ans)

\* InDropSteps with the body finished before the cancel.
InDropSteps_FinishFirst == <<"stream", "finish", "cancel">>

\* The order in which Incoming::drop acts.
InDropSteps == <<"cancel", "stream", "finish">>

\* The source is dropped: Incoming::drop.
SrcDrop ==
  /\ pc = "poll"
  /\ in_stream_and_body = "some"
  /\ LET st == ApplyDrop([slot |-> slot, released |-> released,
                          cancelled |-> cancelled, token |-> token,
                          events |-> in_events],
                         InDropSteps, in_cancel_token, in_stream_and_body)
     IN /\ slot' = st.slot
        /\ released' = st.released
        /\ cancelled' = st.cancelled
        /\ token' = st.token
        /\ in_events' = st.events
  /\ in_cancel_token' = 0
  /\ in_stream_and_body' = "none"
  /\ UNCHANGED <<WAKERS, wakeCount, nextId>>
  /\ UNCHANGED runVars
  /\ UNCHANGED <<rstate, pulls, reads>>
  /\ UNCHANGED <<sinkVars, libVars>>

\* What the root future that drives the source resolves with.
SrcValue ==
  IF \E i \in 1..Len(pulls) : pulls[i].out.r = "err" THEN "err" ELSE "ok"

\* The root future, its source dropped, returns Ready.
SrcFutReady ==
  /\ in_stream_and_body = "none"
  /\ FutReady(SrcValue)

\* Another part of the root future registers a pollable of its own, before
\* the first pull.
SrcOtherPush ==
  /\ pulls = <<>>
  /\ in_stream_and_body = "some"
  /\ nextId < MaxOther
  /\ Push(FALSE)

\* ------------------------------------------------------------ the mock pipe

\* The pipe joins the sink's output stream to the source's input stream: the
\* bytes written are read back in the order written.

\* The number of bytes the first k reads took out of the pipe.
RECURSIVE ReadUpTo(_, _)
ReadUpTo(ps, k) == IF k = 0 THEN 0 ELSE ReadUpTo(ps, k - 1) + ps[k].read.n

\* The bytes of the pipe not read yet.
PipeAvail == Len(written) - ReadUpTo(pulls, Len(pulls))

\* The writing end is gone: the sink was dropped.
PipeWriterGone == stream_and_body = "none"

\* The pipe never closes its writing end and never fails a write or a flush:
\* it takes every byte it offered capacity for.
PipeStaysOpen == wstate' = "open"

\* The answers a read of the pipe may give: while it holds bytes, a buffer of
\* the next ones, one of them or all there are up to READ_SIZE; an empty
\* buffer while it holds none and the writing end is there; closed once every
\* byte was read and the writing end is gone.
PipeAnswers ==
  IF rstate = "closed" \/ (PipeAvail = 0 /\ PipeWriterGone)
  THEN {[a |-> "closed", n |-> 0]}
  ELSE IF PipeAvail = 0
       THEN {[a |-> "data", n |-> 0]}
       ELSE {[a |-> "data", n |-> Min(n, PipeAvail)] : n \in ReadLens}

\* The bytes the source yielded in its first k pulls: of each chunk, the
\* first out.n bytes of the buffer its read returned.
RECURSIVE Received(_, _, _)
Received(ps, w, k) ==
  IF k = 0 THEN <<>>
  ELSE Received(ps, w, k - 1) \o
       (IF ps[k].out.r = "chunk"
        THEN SubSeq(w, ReadUpTo(ps, k - 1) + 1,
                    ReadUpTo(ps, k - 1) + Min(ps[k].out.n, ps[k].read.n))
        ELSE <<>>)

\* A pull of the source whose input stream is the reading end of the pipe,
\* between two sends of the sink.
PipePull ==
  /\ spc \in {"idle", "dropped"}
  /\ \E ans \in PipeAnswers : PullWith(ans)

\* The sink's steps against the writing end of the pipe.
PipeWrite == SinkWrite /\ PipeStaysOpen

PipeFlush == SinkFlush /\ PipeStaysOpen

PipeResolve == SinkResolve /\ PipeStaysOpen

\* The source is dropped after the sink.
PipeSrcDrop == SrcDrop /\ spc = "dropped"

\* What the root future that drives the pipe resolves with.
PipeValue ==
  IF SinkValue = "ok" /\ SrcValue = "ok" THEN "ok" ELSE "err"

\* The root future, sink and source dropped, returns Ready.
PipeFutReady ==
  /\ stream_and_body = "none"
  /\ in_stream_and_body = "none"
  /\ FutReady(PipeValue)

\* -------------------------------------------------------- the request router

\* The methods of the requests and of the route tables.
Methods == {"Get", "Head", "Post"}

Lit(x) == [k |-> "lit", s |-> x]
Param(x) == [k |-> "param", s |-> x]
Star == [k |-> "star", s |-> "*"]

\* The route patterns registered: "/foo", "/:x", "/:x/*" and "/*".
Patterns == {<<Lit("foo")>>, <<Param("x")>>, <<Param("x"), Star>>, <<Star>>}

\* The paths of the requests and the values of the spin-path-info header, as
\* sequences of segments.
Paths == {<<"foo">>, <<"bar">>, <<"foo", "bar">>, <<"bar", "foo">>,
          <<"base", "foo", "bar">>}

\* A header: absent, present with a value that is no string, or a string.
Headers == {[kind |-> "absent", value |-> <<>>], [kind |-> "binary", value |-> <<>>]}
           \cup {[kind |-> "str", value |-> p] : p \in Paths}

Requests == [method : Methods, path : Paths, header : Headers]

\* Whether a route pattern matches a path: a literal segment matches itself,
\* ":name" one segment, and a trailing "*" whatever is left.
RECURSIVE PatMatches(_, _)
PatMatches(pat, path) ==
  IF pat = <<>> THEN path = <<>>
  ELSE IF Head(pat).k = "star" THEN TRUE
  ELSE /\ path # <<>>
       /\ Head(pat).k = "param" \/ Head(pat).s = Head(path)
       /\ PatMatches(Tail(pat), Tail(path))

\* What a matching pattern captures: the segments of its ":name"s and what
\* its "*" matched.
RECURSIVE Captures(_, _)
Captures(pat, path) ==
  IF pat = <<>> THEN [named |-> {}, wildcard |-> <<>>]
  ELSE IF Head(pat).k = "star" THEN [named |-> {}, wildcard |-> path]
  ELSE LET rest == Captures(Tail(pat), Tail(path)) IN
         IF Head(pat).k = "param"
         THEN [rest EXCEPT !.named = @ \cup {<<Head(pat).s, Head(path)>>}]
         ELSE rest

NoCaptures == [named |-> {}, wildcard |-> <<>>]

\* p is the more specific of two patterns: at the first segment where they
\* differ an exact segment comes before ":name" and ":name" before "*"; a
\* pattern comes before its extensions.
SegRank(seg) == CASE seg.k = "lit" -> 0 [] seg.k = "param" -> 1 [] OTHER -> 2

RECURSIVE MoreSpecific(_, _)
MoreSpecific(p, q) ==
  IF p = <<>> THEN q # <<>>
  ELSE IF q = <<>> THEN FALSE
  ELSE IF SegRank(Head(p)) # SegRank(Head(q))
       THEN SegRank(Head(p)) < SegRank(Head(q))
       ELSE MoreSpecific(Tail(p), Tail(q))

NoMatch == <<>>

\* best_match of one route table: the most specific route that matches, or
\* None.
BestMatch(routes, path) ==
  LET ms == {p \in routes : PatMatches(p, path)} IN
    IF ms = {} THEN NoMatch
    ELSE CHOOSE p \in ms : \A q \in ms \ {p} : MoreSpecific(p, q)

RouteMatch(table, route, params) ==
  [handler |-> [table |-> table, route |-> route], params |-> params]

\* Fail with 404 answered whatever the other methods have.
Fail_AlwaysNotFound(mm, path, method) ==
  RouteMatch("not_found", NoMatch, NoCaptures)

\* Router::fail: 405 when a table of another method has a route that matches,
\* 404 otherwise.
Fail(mm, path, method) ==
  IF \E k \in Methods \ {method} : BestMatch(mm[k], path) # NoMatch
  THEN RouteMatch("method_not_allowed", NoMatch, NoCaptures)
  ELSE RouteMatch("not_found", NoMatch, NoCaptures)

\* Find with the two tables searched as one: of a route of the method and an
\* any-method route that both match, the more specific is chosen.
Find_MostSpecificFirst(mm, any, path, method) ==
  LET own == BestMatch(mm[method], path)
      all == BestMatch(any, path)
      get == BestMatch(mm["Get"], path)
  IN IF own # NoMatch /\ (all = NoMatch \/ ~MoreSpecific(all, own))
     THEN RouteMatch(method, own, Captures(own, path))
     ELSE IF all # NoMatch THEN RouteMatch("any", all, Captures(all, path))
     ELSE IF method = "Head" /\ get # NoMatch
          THEN RouteMatch("Get", get, Captures(get, path))
     ELSE Fail(mm, path, IF method = "Head" THEN "Get" ELSE method)

\* Find with HEAD treated as any other method: no fallback to GET.
Find_NoHeadFallback(mm, any, path, method) ==
  LET own == BestMatch(mm[method], path)
      all == BestMatch(any, path)
  IN IF own # NoMatch THEN RouteMatch(method, own, Captures(own, path))
     ELSE IF all # NoMatch THEN RouteMatch("any", all, Captures(all, path))
     ELSE Fail(mm, path, method)

\* Router::find.
RECURSIVE Find(_, _, _, _)
Find(mm, any, path, method) ==
  LET own == BestMatch(mm[method], path)
      all == BestMatch(any, path)
  IN IF own # NoMatch THEN RouteMatch(method, own, Captures(own, path))
     ELSE IF all # NoMatch THEN RouteMatch("any", all, Captures(all, path))
     ELSE IF method = "Head" THEN Find(mm, any, path, "Get")
     ELSE Fail(mm, path, method)

\* trailing_suffix: the spin-path-info header as a string, if there is one.
TrailingSuffix(req) ==
  IF req.header.kind = "str" THEN req.header.value ELSE NoMatch

\* RoutedPath with the full path whatever the router was built with.
RoutedPath_AlwaysFull(on, req) == req.path

\* The path handle_async routes on, or None.
RoutedPath(on, req) ==
  IF on = "FullPath" THEN req.path ELSE TrailingSuffix(req)

\* The status of responses::internal_server_error().
InternalServerError == 500

\* The statuses of the responses: of the handlers registered (they answer 200
\* in this model), of not_found and of method_not_allowed.
StatusOf(table) ==
  CASE table = "not_found" -> 404
    [] table = "method_not_allowed" -> 405
    [] OTHER -> 200

\* Router::handle_async: the response, the handler invoked and its params.
HandleAsync(mm, any, on, req) ==
  LET path == RoutedPath(on, req) IN
    IF path = NoMatch
    THEN [status |-> InternalServerError,
          handler |-> [table |-> "none", route |-> NoMatch],
          params |-> NoCaptures, path |-> NoMatch]
    ELSE LET m == Find(mm, any, path, req.method) IN
           [status |-> StatusOf(m.handler.table), handler |-> m.handler,
            params |-> m.params, path |-> path]

NoRequest == [method |-> "none", path |-> <<>>,
              header |-> [kind |-> "absent", value |-> <<>>]]

NoResponse == [status |-> 0, handler |-> [table |-> "none", route |-> NoMatch],
               params |-> NoCaptures, path |-> NoMatch]

\* The routes registered so far.
Routes == UNION {{<<k, p>> : p \in methods_map[k]} : k \in Methods}
          \cup {<<"any", p>> : p \in any_methods}

\* Router::add (get, post, head, ...), before the router handles requests.
RouterAdd(method, pat) ==
  /\ request = NoRequest
  /\ Cardinality(Routes) < MaxRoutes
  /\ pat \notin methods_map[method]
  /\ methods_map' = [methods_map EXCEPT ![method] = @ \cup {pat}]
  /\ UNCHANGED <<any_methods, route_on, request, response>>
  /\ UNCHANGED <<execVars, adapterVars, dbVars, lockVars, sendVars, returnVars,
                 wasip3Vars>>

\* Router::any.
RouterAny(pat) ==
  /\ request = NoRequest
  /\ Cardinality(Routes) < MaxRoutes
  /\ pat \notin any_methods
  /\ any_methods' = any_methods \cup {pat}
  /\ UNCHANGED <<methods_map, route_on, request, response>>
  /\ UNCHANGED <<execVars, adapterVars, dbVars, lockVars, sendVars, returnVars,
                 wasip3Vars>>

\* Router::handle applied to a request; it takes &self and leaves the router
\* as it is, so one request per behaviour shows every response.
RouterHandle(req) ==
  /\ request = NoRequest
  /\ request' = req
  /\ response' = HandleAsync(methods_map, any_methods, route_on, req)
  /\ UNCHANGED <<methods_map, any_methods, route_on>>
  /\ UNCHANGED <<execVars, adapterVars, dbVars, lockVars, sendVars, returnVars,
                 wasip3Vars>>

\* ------------------------------------------------ decoding database values

\* The modules with a Decode trait, and the types decoded in each.
DecodeTypes(db) ==
  IF db = "mysql" THEN {"bool", "i8", "i16", "i32", "i64", "String"}
  ELSE {"bool", "i16", "i32", "i64", "String"}

IntVariants == {"Int8", "Int16", "Int32", "Int64"}

\* DbValue, some of its variants, with small payloads.
DbValues ==
  {[variant |-> "DbNull", val |-> "null"]}
  \cup {[variant |-> "Boolean", val |-> b] : b \in BOOLEAN}
  \cup {[variant |-> k, val |-> n] : k \in IntVariants, n \in (-1)..MaxDbInt}
  \cup {[variant |-> "Str", val |-> "foo"]}

DecodeOk(x) == [ok |-> TRUE, val |-> x]
DecodeErr == [ok |-> FALSE, val |-> "Error::Decode"]

\* The variant whose payload a type is decoded from, for the types that take
\* the payload as it is.
OwnVariant(db, ty) ==
  CASE ty = "bool" -> IF db = "mysql" THEN "Int8" ELSE "Boolean"
    [] ty = "i8" -> "Int8"
    [] ty = "i16" -> "Int16"
    [] ty = "i32" -> "Int32"
    [] ty = "i64" -> "Int64"
    [] OTHER -> "Str"

\* DecodeScalar with the MySQL bool true for every TINYINT but 0.
DecodeScalar_BoolNonZero(db, ty, v) ==
  IF db = "mysql" /\ ty = "bool"
  THEN IF v.variant = "Int8" THEN DecodeOk(v.val # 0) ELSE DecodeErr
  ELSE IF v.variant = OwnVariant(db, ty) THEN DecodeOk(v.val) ELSE DecodeErr

\* T::decode for the scalar types.
DecodeScalar(db, ty, v) ==
  IF db = "mysql" /\ ty = "bool"
  THEN IF v.variant = "Int8" /\ v.val \in {0, 1}
       THEN DecodeOk(v.val = 1) ELSE DecodeErr
  ELSE IF v.variant = OwnVariant(db, ty) THEN DecodeOk(v.val) ELSE DecodeErr

\* Option<T>::decode.
DecodeOption(db, ty, v) ==
  IF v.variant = "DbNull" THEN DecodeOk([some |-> FALSE, val |-> "None"])
  ELSE LET r == DecodeScalar(db, ty, v) IN
         IF r.ok THEN DecodeOk([some |-> TRUE, val |-> r.val]) ELSE r

NoCall == [db |-> "none", ty |-> "none", opt |-> FALSE,
           value |-> [variant |-> "DbNull", val |-> "null"]]

\* One call of T::decode (opt = FALSE) or of Option<T>::decode.
DbDecode(db, ty, opt, v) ==
  /\ decode_call' = [db |-> db, ty |-> ty, opt |-> opt, value |-> v]
  /\ decoded' = IF opt THEN DecodeOption(db, ty, v) ELSE DecodeScalar(db, ty, v)
  /\ UNCHANGED <<execVars, adapterVars, routerVars, lockVars, sendVars,
                 returnVars, wasip3Vars>>

\* ---------------------------------------------------------- specification

\* The registry and run before anything was pushed.
InitReg ==
  /\ WAKERS = <<>>
  /\ slot = [id \in Ids |-> "unused"]
  /\ token = [id \in Ids |-> "none"]
  /\ wakeCount = [id \in Ids |-> 0]
  /\ released = [id \in Ids |-> 0]
  /\ cancelled = {}
  /\ nextId = 0
  /\ wakers = <<>>
  /\ ready = {}
  /\ polls = 0
  /\ queries = 0
  /\ result = "none"
  /\ resolved = "none"

\* The sink as outgoing_body returns it, nothing sent yet.
InitSink ==
  /\ chunks = <<>>
  /\ offset = 0
  /\ flushing = FALSE
  /\ spc = "idle"
  /\ stream_and_body = "some"
  /\ cancel_token = 0
  /\ wstate = "open"
  /\ written = <<>>
  /\ sent = <<>>
  /\ wsizes = <<>>
  /\ nflush = <<>>
  /\ closedAt = NoClose
  /\ check = NoCheck
  /\ events = <<>>

\* The source as incoming_body returns it, never pulled.
InitSrc ==
  /\ in_stream_and_body = "some"
  /\ in_cancel_token = 0
  /\ rstate = "open"
  /\ pulls = <<>>
  /\ reads = <<>>
  /\ in_events = <<>>

\* A router as Router::new() returns it, no request handled.
InitRouter ==
  /\ methods_map = [k \in Methods |-> {}]
  /\ any_methods = {}
  /\ request = NoRequest
  /\ response = NoResponse

\* No value decoded yet.
InitDb ==
  /\ decode_call = NoCall
  /\ decoded = DecodeErr

\* No request sent yet.
InitSend ==
  /\ state_response = "unbuilt"
  /\ state_cancel_token = 0
  /\ handled = 0
  /\ future_response = "absent"
  /\ send_pc = "unbuilt"
  /\ send_polls = 0
  /\ send_result = "none"

\* ------------------------------------------------- the wasip3 incoming body

READ_FRAME_SIZE == 16 * 1024

\* The lengths of the buffers a completed read may hand over: the buffer has
\* a capacity of READ_FRAME_SIZE.
FrameLens == {0, 1, READ_FRAME_SIZE}

\* The contents of a stream: its buffers in order, buffer k with its length.
BodyStreams ==
  UNION {{[i \in 1..m |-> [k |-> i, n |-> f[i]]] : f \in [1..m -> FrameLens]} :
         m \in 0..MaxBodyReads}

\* What the trailers future resolves with: Ok(Some(fields)) with fields that
\* convert to a header map ("fields") or that do not ("bad_fields"), Ok(None)
\* ("none"), or Err(code) ("err").
TrailerEnds == {"fields", "bad_fields", "none", "err"}

Messages == [stream : BodyStreams, trailers : TrailerEnds]

\* What a call of poll_frame returns.  e names the error: "code" is the
\* ErrorCode of the trailers future, "header" the InternalError of
\* fields_to_header_map, "taken" the InternalError of ensure_started.
NoBuf == [k |-> 0, n |-> 0]
Item(t, buf, e) == [t |-> t, buf |-> buf, e |-> e]
PendingItem == Item("pending", NoBuf, "")
NoneItem == Item("none", NoBuf, "")

\* What the answers of the host to an awaited read or trailers future are.
HostAnswers == {"pending", "done"}

\* TakeUnstarted with the message handed out and the body left Unstarted.
TakeUnstarted_KeepsState(st) ==
  IF st = "Unstarted" THEN [state |-> "Unstarted", ret |-> "msg"]
  ELSE [state |-> st, ret |-> "none"]

\* take_unstarted: the state afterwards and what is returned.
TakeUnstarted(st) ==
  IF st = "Unstarted" THEN [state |-> "Empty", ret |-> "msg"]
  ELSE [state |-> st, ret |-> "none"]

\* ensure_started: an unstarted body consumes the message and is Started with
\* the stream Ready; an Empty one gives the InternalError.
EnsureStarted(st, inc) ==
  CASE st = "Unstarted" -> [state |-> "Started", incoming |-> "Ready", ok |-> TRUE]
    [] st = "Started" -> [state |-> st, incoming |-> inc, ok |-> TRUE]
    [] OTHER -> [state |-> st, incoming |-> inc, ok |-> FALSE]

\* trailers.await inside the read future, the host answering ta.
AwaitTrailers(at, ta) ==
  IF ta = "pending" THEN [out |-> "pending", phase |-> "trailers", cursor |-> at]
  ELSE [out |-> "trailers", phase |-> "none", cursor |-> at]

\* One poll of the boxed read future in phase ph: the read completes with
\* the next buffer of the stream, or finds the stream dropped and awaits the
\* trailers; the host answers ra to the read and ta to the trailers future.
PollRead(ph, at, msg, ra, ta) ==
  IF ph = "read"
  THEN IF ra = "pending"
       THEN [out |-> "pending", phase |-> "read", cursor |-> at]
       ELSE IF at < Len(msg.stream)
            THEN [out |-> "chunk", phase |-> "none", cursor |-> at + 1]
            ELSE AwaitTrailers(at, ta)
  ELSE AwaitTrailers(at, ta)

\* AfterTrailers with the stream taken for readable again.
AfterTrailers_Ready == "Ready"

\* The IncomingState set when the read future gave ReadResult::Trailers.
AfterTrailers == "Done"

\* The item for ReadResult::Trailers(end); Ok(None) falls through to the
\* arm of Done.
TrailersItem(end) ==
  CASE end = "fields" -> Item("trailers", NoBuf, "")
    [] end = "bad_fields" -> Item("error", NoBuf, "header")
    [] end = "err" -> Item("error", NoBuf, "code")
    [] OTHER -> NoneItem

\* poll_frame on a body in state st with IncomingState inc: the states
\* afterwards, whether a read future was created, and the item returned.
PollFrame(st, inc, ph, at, msg, ra, ta) ==
  LET es == EnsureStarted(st, inc)
      created == es.ok /\ es.incoming = "Ready"
      ph1 == IF created THEN "read" ELSE ph
      f == PollRead(ph1, at, msg, ra, ta)
      keep == [state |-> es.state, incoming |-> es.incoming, phase |-> ph,
               cursor |-> at, created |-> FALSE]
  IN CASE ~es.ok ->
            [keep EXCEPT !.phase = ph] @@ [item |-> Item("error", NoBuf, "taken")]
       [] es.ok /\ es.incoming = "Done" -> keep @@ [item |-> NoneItem]
       [] es.ok /\ es.incoming # "Done" /\ f.out = "pending" ->
            [state |-> es.state, incoming |-> "Reading", phase |-> f.phase,
             cursor |-> at, created |-> created, item |-> PendingItem]
       [] es.ok /\ es.incoming # "Done" /\ f.out = "chunk" ->
            [state |-> es.state, incoming |-> "Ready", phase |-> "none",
             cursor |-> f.cursor, created |-> created,
             item |-> Item("data", msg.stream[f.cursor], "")]
       [] OTHER ->
            [state |-> es.state, incoming |-> AfterTrailers, phase |-> "none",
             cursor |-> at, created |-> created,
             item |-> TrailersItem(msg.trailers)]

\* ------------------------------------ a handler's Result (wasip3 IntoResponse)

\* Error codes, responses (resources, told apart by name) and messages.
Codes == {"ConnectionRefused", "HttpResponseTimeout"}
Responses == {"response404", "response500"}
Msgs == {"boom", "bad input"}

Payloads(kind, vals) == {[kind |-> kind, val |-> v] : v \in vals}

\* The values of Ok by type: a wasi Response; a &str or a String; an
\* http::Response whose headers convert ("built") or do not ("bad_headers"),
\* or whose body is an IncomingResponseBody never started ("unstarted", with
\* the response it came from); a pair (StatusCode, body).
OkPayloads(via) ==
  CASE via = "Response" -> Payloads("response", Responses)
    [] via \in {"str", "String"} -> Payloads("text", Msgs)
    [] via = "http::Response" ->
         Payloads("built", {""}) \cup Payloads("bad_headers", {""})
         \cup Payloads("unstarted", Responses)
    [] OTHER -> Payloads("pair", {""})

\* The values of Err by type: an ErrorCode; a wasi Response; an Error of any
\* variant; an anyhow::Error holding an ErrorCode ("code"), an Error of any
\* variant, or another error ("other"); an http::Error.
ErrPayloads(via) ==
  LET errors == Payloads("Error::ErrorCode", Codes)
                \cup Payloads("Error::Response", Responses)
                \cup Payloads("Error::Other", Msgs)
  IN CASE via = "ErrorCode" -> Payloads("code", Codes)
       [] via = "Response" -> Payloads("response", Responses)
       [] via = "Error" -> errors
       [] via = "anyhow" ->
            Payloads("code", Codes) \cup errors \cup Payloads("other", Msgs)
       [] OTHER -> Payloads("other", Msgs)

OkTypes == {"Response", "str", "String", "http::Response", "pair"}
ErrTypes == {"ErrorCode", "Response", "Error", "anyhow", "http::Error"}

\* The Results a handler may return.
Results ==
  UNION {{[ok |-> TRUE, via |-> t, is |-> p] : p \in OkPayloads(t)} : t \in OkTypes}
  \cup
  UNION {{[ok |-> FALSE, via |-> t, is |-> p] : p \in ErrPayloads(t)} : t \in ErrTypes}

\* The outcomes of into_response: Ok(response), Err(code) with the message
\* of an InternalError, or a panic.
OkResponse(r) == [t |-> "Ok", code |-> "", v |-> r]
ErrCode(c, msg) == [t |-> "Err", code |-> c, v |-> msg]
Panics == [t |-> "panic", code |-> "", v |-> ""]

\* into_response of the value of Ok, by type.
OkIntoResponse(via, p) ==
  CASE via = "Response" -> OkResponse(p.val)
    [] via \in {"str", "String"} -> OkResponse("new")
    [] via = "http::Response" /\ p.kind = "unstarted" -> OkResponse(p.val)
    [] via = "http::Response" /\ p.kind = "bad_headers" ->
         ErrCode("InternalError", "header")
    [] via = "http::Response" /\ p.kind = "built" -> OkResponse("new")
    [] OTHER -> Panics

\* IntoError with an http::Error kept as Error::Other.
IntoError_HttpErrorIsOther(via, p) ==
  CASE p.kind \in {"code", "Error::ErrorCode"} -> [variant |-> "ErrorCode", val |-> p.val]
    [] p.kind \in {"response", "Error::Response"} -> [variant |-> "Response", val |-> p.val]
    [] OTHER -> [variant |-> "Other", val |-> p.val]

\* err.into(): the Error an Err value of type via converts into.
IntoError(via, p) ==
  CASE via = "http::Error" -> [variant |-> "todo!", val |-> ""]
    [] via = "ErrorCode" -> [variant |-> "ErrorCode", val |-> p.val]
    [] via = "Response" -> [variant |-> "Response", val |-> p.val]
    [] via = "anyhow" /\ p.kind = "code" -> [variant |-> "ErrorCode", val |-> p.val]
    [] via = "anyhow" /\ p.kind = "other" -> [variant |-> "Other", val |-> p.val]
    [] p.kind = "Error::ErrorCode" -> [variant |-> "ErrorCode", val |-> p.val]
    [] p.kind = "Error::Response" -> [variant |-> "Response", val |-> p.val]
    [] OTHER -> [variant |-> "Other", val |-> p.val]

\* IntoResponse with an Error::Response turned into an InternalError.
IntoResponse_ResponseIsError(res) ==
  IF res.ok THEN OkIntoResponse(res.via, res.is)
  ELSE LET e == IntoError(res.via, res.is) IN
         CASE e.variant = "ErrorCode" -> ErrCode(e.val, "")
           [] e.variant = "Response" -> ErrCode("InternalError", e.val)
           [] e.variant = "Other" -> ErrCode("InternalError", e.val)
           [] OTHER -> Panics

\* into_response of a Result.
IntoResponse(res) ==
  IF res.ok THEN OkIntoResponse(res.via, res.is)
  ELSE LET e == IntoError(res.via, res.is) IN
         CASE e.variant = "ErrorCode" -> ErrCode(e.val, "")
           [] e.variant = "Response" -> OkResponse(e.val)
           [] e.variant = "Other" -> ErrCode("InternalError", e.val)
           [] OTHER -> Panics

\* No handler has returned.
NoReturn == [ok |-> FALSE, via |-> "none", is |-> [kind |-> "none", val |-> ""]]
NoOutcome == [t |-> "none", code |-> "", v |-> ""]

\* The handler returns res and the generated export calls into_response on it.
HandlerReturn(res) ==
  /\ returned = NoReturn
  /\ returned' = res
  /\ outcome' = IntoResponse(res)
  /\ UNCHANGED bodyVars
  /\ UNCHANGED <<execVars, adapterVars, routerVars, dbVars, lockVars, sendVars,
                 returnVars>>

\* A call of poll_frame, while the handler that owns the body runs.
BodyPollFrame ==
  /\ returned = NoReturn
  /\ Len(frames) < MaxFrameCalls
  /\ \E ra \in HostAnswers, ta \in HostAnswers :
       LET r == PollFrame(body_state, incoming_state, read_phase, cursor,
                          message, ra, ta)
       IN /\ body_state' = r.state
          /\ incoming_state' = r.incoming
          /\ read_phase' = r.phase
          /\ cursor' = r.cursor
          /\ reads_issued' = reads_issued + (IF r.created THEN 1 ELSE 0)
          /\ frames' = Append(frames, r.item)
  /\ UNCHANGED <<message, takes>>
  /\ UNCHANGED respVars
  /\ UNCHANGED <<execVars, adapterVars, routerVars, dbVars, lockVars, sendVars,
                 returnVars>>

\* A call of take_unstarted.
BodyTakeUnstarted ==
  /\ returned = NoReturn
  /\ Len(takes) < MaxTakes
  /\ LET r == TakeUnstarted(body_state)
     IN /\ body_state' = r.state
        /\ takes' = Append(takes, [ret |-> r.ret, polled |-> Len(frames)])
  /\ UNCHANGED <<message, incoming_state, read_phase, cursor, reads_issued,
                 frames>>
  /\ UNCHANGED respVars
  /\ UNCHANGED <<execVars, adapterVars, routerVars, dbVars, lockVars, sendVars,
                 returnVars>>

\* The body as IncomingBody::new returns it.
InitBody ==
  /\ body_state = "Unstarted"
  /\ incoming_state = "none"
  /\ read_phase = "none"
  /\ cursor = 0
  /\ reads_issued = 0
  /\ frames = <<>>
  /\ takes = <<>>

\* No handler has returned.
InitResp ==
  /\ returned = NoReturn
  /\ outcome = NoOutcome

\* A body as IncomingBody::new returns it for a message without content, and
\* no handler returned yet.
InitWasip3 ==
  /\ message = [stream |-> <<>>, trailers |-> "none"]
  /\ InitBody
  /\ InitResp

InitLib ==
  /\ InitRouter
  /\ route_on = "FullPath"
  /\ InitDb
  /\ held = {}
  /\ InitSend
  /\ live_at_return = {}
  /\ InitWasip3

Init ==
  /\ InitReg
  /\ pc = "idle"
  /\ runs = 0
  /\ InitSink
  /\ InitSrc
  /\ InitLib

Next ==
  \/ RunStart
  \/ \E keep \in BOOLEAN : Push(keep)
  \/ \E id \in Ids : IntoGuard(id)
  \/ \E id \in Ids : Cancel(id)
  \/ \E id \in Ids : DropGuard(id)
  \/ FutPending
  \/ \E v \in Values : FutReady(v)
  \/ Drain
  \/ Query
  \/ Fire

Spec == Init /\ [][Next]_vars

\* The root future sends the chunks through an outgoing sink, one at a time,
\* and drops the sink; run drives it.
SinkInit ==
  /\ InitReg
  /\ pc = "poll"
  /\ runs = 1
  /\ InitSink
  /\ InitSrc
  /\ InitLib

SinkNext ==
  \/ \E n \in 0..MaxChunkLen : SinkSend(n)
  \/ SinkRepoll
  \/ SinkSuspend
  \/ SinkWrite
  \/ SinkFlush
  \/ SinkResolve
  \/ SinkDrop
  \/ SinkFutReady
  \/ SinkOtherPush
  \/ Drain
  \/ Query
  \/ Fire

SinkSpec == SinkInit /\ [][SinkNext]_vars

\* The root future pulls from an incoming source and drops it; run drives it.
SrcInit ==
  /\ InitReg
  /\ pc = "poll"
  /\ runs = 1
  /\ InitSink
  /\ InitSrc
  /\ InitLib

SrcNext ==
  \/ SrcPull
  \/ SrcDrop
  \/ SrcFutReady
  \/ SrcOtherPush
  \/ Drain
  \/ Query
  \/ Fire

SrcSpec == SrcInit /\ [][SrcNext]_vars

\* The root future sends chunks (empty, of one byte, or of MaxChunkLen bytes)
\* through the sink into the pipe and pulls them back through the source,
\* between the sends and after the sink is dropped, then drops the source;
\* run drives it.
PipeInit ==
  /\ InitReg
  /\ pc = "poll"
  /\ runs = 1
  /\ InitSink
  /\ InitSrc
  /\ InitLib

PipeNext ==
  \/ \E n \in {0, 1, MaxChunkLen} : SinkSend(n)
  \/ SinkRepoll
  \/ SinkSuspend
  \/ PipeWrite
  \/ PipeFlush
  \/ PipeResolve
  \/ SinkDrop
  \/ PipePull
  \/ PipeSrcDrop
  \/ PipeFutReady
  \/ Drain
  \/ Query
  \/ Fire

PipeSpec == PipeInit /\ [][PipeNext]_vars

\* ConcSpec: Spec with the tokens also cancelled and the guards also dropped
\* at any point of an iteration of run.
ConcNext ==
  \/ Next
  \/ \E id \in Ids : ConcCancel(id)
  \/ \E id \in Ids : ConcDropGuard(id)

ConcSpec == Init /\ [][ConcNext]_vars

\* LockSpec: Spec with the Pending arm of run taken statement by statement,
\* the guards of the mutexes held as the statements hold them, and with
\* pushes, cancels and drops of guards also made while run is inside the arm.
LockNext ==
  \/ RunStart
  \/ \E keep \in BOOLEAN : Push(keep)
  \/ \E id \in Ids : IntoGuard(id)
  \/ \E id \in Ids : Cancel(id)
  \/ \E id \in Ids : DropGuard(id)
  \/ FutPending
  \/ \E v \in Values : FutReady(v)
  \/ LockDrain
  \/ UnlockDrain
  \/ QueryCall
  \/ QueryReturn
  \/ LoopAndWriteBack
  \/ UnlockWriteBack
  \/ \E keep \in BOOLEAN : ConcPush(keep)
  \/ \E id \in Ids : ConcCancel(id)
  \/ \E id \in Ids : ConcDropGuard(id)

LockSpec == Init /\ [][LockNext]_vars

\* SendSpec: the root future sends one request with outgoing_request_send,
\* awaits the response and drops the send future; run drives it.
SendInit ==
  /\ InitReg
  /\ pc = "poll"
  /\ runs = 1
  /\ InitSink
  /\ InitSrc
  /\ InitLib

SendNext ==
  \/ \E r \in {"handle", "err"} : SendBuild(r)
  \/ \E v \in {"ok", "err"} : SendHostAnswers(v)
  \/ SendResolve
  \/ SendSuspend
  \/ SendDrop
  \/ SendFutReady
  \/ SendOtherPush
  \/ Drain
  \/ Query
  \/ Fire

SendSpec == SendInit /\ [][SendNext]_vars

\* AdapterSpec: the root future drives one adapter, a sink, a source or a
\* send future, beside another sub-task's pollable; run drives it.
DriveSink ==
  /\ pulls = <<>>
  /\ in_stream_and_body = "some"
  /\ send_pc = "unbuilt"
  /\ SinkNext

DriveSrc ==
  /\ chunks = <<>>
  /\ stream_and_body = "some"
  /\ send_pc = "unbuilt"
  /\ SrcNext

DriveSend ==
  /\ chunks = <<>>
  /\ stream_and_body = "some"
  /\ pulls = <<>>
  /\ in_stream_and_body = "some"
  /\ SendNext

AdapterNext ==
  \/ DriveSink
  \/ DriveSrc
  \/ DriveSend

AdapterSpec == SinkInit /\ [][AdapterNext]_vars

\* RouterSpec: a router is built with Router::new() or Router::suffix(), routes
\* are registered, and requests are handled.
RouterInit ==
  /\ InitReg
  /\ pc = "idle"
  /\ runs = 0
  /\ InitSink
  /\ InitSrc
  /\ InitRouter
  /\ route_on \in {"FullPath", "Suffix"}
  /\ InitDb
  /\ held = {}
  /\ InitSend
  /\ live_at_return = {}
  /\ InitWasip3

RouterNext ==
  \/ \E k \in Methods, p \in Patterns : RouterAdd(k, p)
  \/ \E p \in Patterns : RouterAny(p)
  \/ \E req \in Requests : RouterHandle(req)

RouterSpec == RouterInit /\ [][RouterNext]_vars

\* DbSpec: values of the database are decoded, by either module, into every
\* type and into its Option.
DbNext ==
  \E db \in {"mysql", "pg4"} : \E ty \in DecodeTypes(db), opt \in BOOLEAN, v \in DbValues :
    DbDecode(db, ty, opt, v)

DbSpec == Init /\ [][DbNext]_vars

\* BodySpec: a handler takes or polls the body of any message.
BodyInit ==
  /\ InitReg
  /\ pc = "idle"
  /\ runs = 0
  /\ InitSink
  /\ InitSrc
  /\ InitRouter
  /\ route_on = "FullPath"
  /\ InitDb
  /\ held = {}
  /\ InitSend
  /\ live_at_return = {}
  /\ message \in Messages
  /\ InitBody
  /\ InitResp

BodyNext ==
  \/ BodyPollFrame
  \/ BodyTakeUnstarted

BodySpec == BodyInit /\ [][BodyNext]_vars

\* RespSpec: a handler takes or polls the body of its request and returns a
\* Result, which into_response turns into the answer.
RespNext ==
  \/ BodyPollFrame
  \/ BodyTakeUnstarted
  \/ \E res \in Results : HandlerReturn(res)

RespSpec == Init /\ [][RespNext]_vars

\* LiveSpec: Spec with the fairness the claim of termination assumes: run
\* executes its own steps (Drain, Fire), the readiness query returns (Query),
\* and a poll of the root future returns (FutPending, FutReady).
LiveSpec ==
  /\ Init
  /\ [][Next]_vars
  /\ WF_vars(Drain)
  /\ WF_vars(Query)
  /\ WF_vars(Fire)
  /\ WF_vars(FutPending \/ \E v \in Values : FutReady(v))

\* ------------------------------------------------------------------ claims

\* C1: against a stream that never closed or failed, the bytes written are
\* exactly the bytes of the chunks sent, in order, up to the current offset;
\* a chunk never resolves with an error; a resolved chunk has all its bytes
\* written and exactly one flush issued; no chunk has more than one flush.
C1_SinkWritesAllInOrderOneFlush ==
  wstate = "open" =>
    /\ written = (IF cur = 0 THEN <<>>
                  ELSE Concat(chunks, cur - 1) \o SubSeq(chunks[cur], 1, offset))
    /\ \A c \in 1..cur :
         /\ sent[c] # "err"
         /\ nflush[c] <= 1
         /\ c < cur => sent[c] = "ok"
         /\ sent[c] = "ok" => nflush[c] = 1
    /\ (cur > 0 /\ sent[cur] = "ok") =>
         (offset = CurLen /\ written = Concat(chunks, cur))

\* C1 witness: every chunk sent and resolved on an open stream, after a
\* suspension, with a chunk that took more than one write.
C1_Witness ==
  /\ wstate = "open"
  /\ cur = MaxChunks
  /\ \A c \in 1..cur : sent[c] = "ok"
  /\ Len(wsizes) >= 2
  /\ Len(written) >= 4
  /\ polls >= 1

\* C2: the step of run that handles the answer of the readiness query invokes
\* the waker of every drained entry at a ready index exactly once and removes
\* the entry; every other drained entry has no waker invoked, gets its
\* pollable back into its slot and is in the registry afterwards; the
\* registry then holds exactly the entries not ready, and no waker is ever
\* invoked twice.
C2_FireExactlyTheReady ==
  /\ [](\A id \in Ids : wakeCount[id] <= 1)
  /\ [][pc = "fire" =>
         /\ pc' = "poll"
         /\ Range(WAKERS') = {wakers[i] : i \in (1..Len(wakers)) \ ready}
         /\ Len(WAKERS') = Len(wakers) - Cardinality(ready)
         /\ \A i \in 1..Len(wakers) :
              IF i \in ready
              THEN /\ wakeCount'[wakers[i]] = wakeCount[wakers[i]] + 1
                   /\ slot'[wakers[i]] = "none"
                   /\ wakers[i] \notin Range(WAKERS')
              ELSE /\ wakeCount'[wakers[i]] = wakeCount[wakers[i]]
                   /\ slot'[wakers[i]] = "some"
                   /\ wakers[i] \in Range(WAKERS')]_vars

\* C2 witness: three registrations drained, the query reported the first and
\* the third ready; those two fired and the second is registered again.
C2_Witness ==
  /\ pc = "poll"
  /\ queries = 1
  /\ nextId = 3
  /\ WAKERS = <<2>>
  /\ slot[2] = "some"
  /\ wakeCount[1] = 1 /\ wakeCount[2] = 0 /\ wakeCount[3] = 1

\* C3: when the future returned Pending and no registration of the registry
\* holds a pollable, the next step of run is the panic, with no query and no
\* poll; a query is never issued over an empty list; nothing follows a panic.
C3_PendingWithoutRegistrationPanics ==
  [][/\ pc # "panicked"
     /\ (pc = "drain" /\ Live = {}) =>
          (pc' = "panicked" /\ queries' = queries /\ polls' = polls)
     /\ pc' = "query" => wakers' # <<>>]_vars

\* C3 witness: run panicked although a registration was pushed: it was
\* cancelled before the future returned Pending.
C3_Witness ==
  /\ pc = "panicked"
  /\ cancelled # {}
  /\ queries = 0

\* C4: a registration whose pollable a cancel or a guard drop released has an
\* empty slot, its pollable dropped exactly once and no waker invoked, is in
\* no list run queries, and once out of the registry never comes back.
C4_CancelledNeverFiresNorReturns ==
  /\ [](\A id \in cancelled :
          /\ slot[id] = "none"
          /\ released[id] = 1
          /\ wakeCount[id] = 0
          /\ id \notin Range(wakers))
  /\ [][\A id \in cancelled :
          id \notin Range(WAKERS) => id \notin Range(WAKERS')]_vars

\* C4 witness: a query is under way over a list drained, in the first
\* iteration, from a registry that held a cancelled registration.
C4_Witness ==
  /\ pc = "query"
  /\ runs = 1
  /\ polls = 1
  /\ cancelled # {}

\* C5: under LiveSpec a run that is polling its future eventually returns or
\* panics, and what a run returned is what its future resolved with.
C5_RunReturnsTheResolvedValue ==
  /\ (pc = "poll") ~> (pc \in {"done", "panicked"})
  /\ [](pc = "done" => result = resolved /\ resolved \in Values)

\* C5 witness: run returned an error value after the future was polled again.
C5_Witness ==
  /\ pc = "done"
  /\ polls >= 1
  /\ queries >= 1
  /\ result = "err"

\* C6: when check_write reported closed with the offset equal to the chunk
\* length, the chunk resolved successfully, and no write and no flush was
\* issued after that report.
C6_ClosedAtBoundaryIsSuccess ==
  (closedAt.src = "check" /\ closedAt.off = CurLen) =>
    /\ sent[cur] = "ok"
    /\ Len(wsizes) = closedAt.writes
    /\ nflush[cur] = closedAt.flushes

\* C6 witness: a 3-byte chunk, capacities 1, then 2, then closed: resolved
\* successfully after exactly two writes and no flush.
C6_Witness ==
  /\ closedAt.src = "check"
  /\ CurLen = 3
  /\ wsizes = <<1, 2>>
  /\ nflush[cur] = 0
  /\ sent[cur] = "ok"

\* C7: when check_write or write reported closed with the offset below the
\* chunk length, the chunk resolved with an error, and no write and no flush
\* was issued after that report.
C7_ClosedMidChunkIsError ==
  (closedAt.src \in {"check", "write"} /\ closedAt.off < CurLen) =>
    /\ sent[cur] = "err"
    /\ Len(wsizes) = closedAt.writes
    /\ nflush[cur] = closedAt.flushes

\* C7 witness: check_write reported closed after a part of the chunk was
\* written.
C7_Witness ==
  /\ closedAt.src = "check"
  /\ closedAt.off > 0
  /\ closedAt.off < CurLen
  /\ sent[cur] = "err"

\* Registrations made by the adapter (it alone keeps guards).
AdapterRegs == {id \in Ids : token[id] \in {"guard", "spent"}}

\* C8: the drop handler of the sink has run exactly when the pair is gone;
\* it then did, in this order, the cancel (when a guard was held), the
\* release of the stream and one finish; the adapter's registration held no
\* pollable when the stream was released and when the body was finished, and
\* holds none afterwards; run never returns with the body not finished.
C8_SinkTeardownOrder ==
  LET ops == [i \in 1..Len(events) |-> events[i].op] IN
    /\ (stream_and_body = "some") <=> (events = <<>>)
    /\ pc = "done" => events # <<>>
    /\ ops \in {<<>>, <<"stream", "finish">>, <<"cancel", "stream", "finish">>}
    /\ (events # <<>> /\ AdapterRegs # {}) => ops[1] = "cancel"
    /\ \A i \in 1..Len(events) : ops[i] # "cancel" => ~events[i].live
    /\ \A i \in 1..Len(events) : ops[i] = "finish" => events[i].trailers = "none"
    /\ stream_and_body = "none" =>
         (cancel_token = 0 /\ \A id \in AdapterRegs : slot[id] # "some")

\* C8 witness: the sink was dropped while suspended on a registration that
\* still held its pollable, and run returned.
C8_Witness ==
  /\ pc = "done"
  /\ Len(events) = 3
  /\ events[1].op = "cancel"
  /\ events[1].live
  /\ events[3].op = "finish"

\* C9: every call of the source's closure returns by its own read: a
\* non-empty buffer is yielded as it is, at once; an empty buffer yields
\* nothing and suspends on a registration of its own, which holds its
\* pollable when run drains; closed is end-of-stream; a chunk is yielded only
\* for a non-empty buffer; after the read that reported closed every call
\* returns end-of-stream.
C9_SourceYieldsTheNonEmptyReads ==
  /\ \A i \in 1..Len(pulls) :
       LET p == pulls[i] IN
         /\ (p.read.a = "data" /\ p.read.n > 0) =>
              (p.out = [r |-> "chunk", n |-> p.read.n] /\ p.reg = 0)
         /\ (p.read.a = "data" /\ p.read.n = 0) =>
              /\ p.out.r = "pending"
              /\ p.reg \in 1..nextId
              /\ token[p.reg] \in {"guard", "spent"}
              /\ \A j \in 1..Len(pulls) : j # i => pulls[j].reg # p.reg
         /\ p.read.a = "closed" => p.out.r = "eos"
         /\ p.out.r = "chunk" => (p.read.a = "data" /\ p.read.n > 0)
         /\ p.read.a = "closed" =>
              \A j \in (i + 1)..Len(pulls) : pulls[j].out.r = "eos"
  /\ (pc = "drain" /\ pulls # <<>>) =>
       /\ pulls[Len(pulls)].out.r = "pending"
       /\ pulls[Len(pulls)].reg \in Live
       /\ in_cancel_token = pulls[Len(pulls)].reg

\* C9 witness: reads empty, non-empty, closed: the source suspended, was
\* polled again, yielded the chunk and ended.
C9_Witness ==
  /\ Len(pulls) = 3
  /\ pulls[1].out.r = "pending"
  /\ pulls[2].out = [r |-> "chunk", n |-> READ_SIZE]
  /\ pulls[3].out.r = "eos"
  /\ queries = 1

C12_SourceTeardownOrder ==
  LET ops == [i \in 1..Len(in_events) |-> in_events[i].op] IN
    /\ (in_stream_and_body = "some") <=> (in_events = <<>>)
    /\ pc = "done" => in_events # <<>>
    /\ ops \in {<<>>, <<"stream", "finish">>, <<"cancel", "stream", "finish">>}
    /\ (in_events # <<>> /\ AdapterRegs # {}) => ops[1] = "cancel"
    /\ \A i \in 1..Len(in_events) : ops[i] # "cancel" => ~in_events[i].live
    /\ in_stream_and_body = "none" =>
         (in_cancel_token = 0 /\ \A id \in AdapterRegs : slot[id] # "some")

\* C12 witness: the source was dropped after a chunk, while the registration
\* of its last suspension still held its pollable, and run returned.
C12_Witness ==
  /\ pc = "done"
  /\ Len(in_events) = 3
  /\ in_events[1].op = "cancel"
  /\ in_events[1].live
  /\ in_events[3].op = "finish"
  /\ \E i \in 1..Len(pulls) : pulls[i].out.r = "chunk"
  /\ pulls[Len(pulls)].out.r = "pending"

\* C12 second case: the source was dropped after it had yielded an error
\* item and after end-of-stream, never having suspended.
C12_WitnessAfterError ==
  /\ in_events # <<>>
  /\ in_events[1].op = "stream"
  /\ \E i \in 1..Len(pulls) : pulls[i].out.r = "err"
  /\ pulls[Len(pulls)].out.r = "eos"

\* C13: through the pipe, what the source has yielded is at every moment
\* the bytes written so far that the reads took, in order; once the source
\* returned end-of-stream it has yielded every byte written, and when every
\* chunk sent resolved successfully these are the bytes of the chunks,
\* concatenated in the order sent.
C13_RoundTripThroughPipe ==
  LET got == Received(pulls, written, Len(pulls)) IN
    /\ got = SubSeq(written, 1, ReadUpTo(pulls, Len(pulls)))
    /\ (pulls # <<>> /\ pulls[Len(pulls)].out.r = "eos") =>
         /\ got = written
         /\ (\A c \in 1..cur : sent[c] = "ok") => got = Concat(chunks, cur)

\* C13 witness: two chunks, one written in two parts after a suspension on
\* capacity 0, read back with an empty read and in buffers that do not line
\* up with the chunks, until end-of-stream.
C13_Witness ==
  /\ cur = 2
  /\ \A c \in 1..cur : sent[c] = "ok"
  /\ Len(written) >= 4
  /\ Len(wsizes) >= 2
  /\ pulls # <<>>
  /\ pulls[Len(pulls)].out.r = "eos"
  /\ \E i \in 1..Len(pulls) : pulls[i].out.r = "pending"
  /\ \E i \in 1..Len(pulls) : pulls[i].out.r = "chunk" /\ pulls[i].out.n = 4
  /\ Received(pulls, written, Len(pulls)) = Concat(chunks, cur)

\* C14: the pollable of a registration is dropped at most once, and exactly
\* once as soon as its token was cancelled, its guard dropped or its waker
\* invoked; the step that drops it finds it in the slot or in the drained
\* list and leaves the slot empty; a cancel or a guard drop that finds the
\* slot empty drops nothing.
C14_ReleasedExactlyOnce ==
  /\ [](\A id \in Ids :
          /\ released[id] <= 1
          /\ (token[id] = "spent" \/ wakeCount[id] > 0) =>
               (released[id] = 1 /\ slot[id] = "none")
          /\ released[id] = 1 => slot[id] = "none")
  /\ [][\A id \in Ids :
          /\ released'[id] # released[id] =>
               /\ released[id] = 0
               /\ slot[id] = "some" \/ id \in Range(wakers)
               /\ slot'[id] = "none"
          /\ (token[id] # "spent" /\ token'[id] = "spent" /\ slot[id] # "some") =>
               (released'[id] = released[id] /\ slot'[id] = slot[id])]_vars

\* C14 witness: a registration fired, its pollable dropped by run, and its
\* guard was dropped afterwards: one release.
C14_Witness ==
  \E id \in Ids :
    /\ wakeCount[id] = 1
    /\ token[id] = "spent"
    /\ released[id] = 1
    /\ slot[id] = "none"

\* C15: a run whose future returned Ready on its first poll has issued no
\* query and holds no drained list; the step by which run returns changes
\* neither the registry nor any slot, and neither does the call of run; when
\* nothing was ever pushed, the registry is empty and no slot holds a
\* pollable when run returns.
C15_ReadyOnFirstPoll ==
  /\ []((pc = "done" /\ polls = 0) =>
         /\ queries = 0
         /\ wakers = <<>>
         /\ nextId = 0 => (WAKERS = <<>> /\ \A id \in Ids : slot[id] = "unused"))
  /\ [][(pc' # pc /\ (pc' = "done" \/ pc \in {"idle", "done"})) =>
          /\ UNCHANGED <<WAKERS, slot, released, wakeCount>>
          /\ pc' = "done" => (polls' = polls /\ queries' = queries)]_vars

\* C15 witness: the future pushed a registration and returned Ready on its
\* first poll: run returned without a query, the registration still in the
\* registry with its pollable.
C15_Witness ==
  /\ pc = "done"
  /\ runs = 1
  /\ polls = 0
  /\ queries = 0
  /\ WAKERS = <<1>>
  /\ slot[1] = "some"

\* C15 second case: the future pushed nothing and returned Ready on its
\* first poll.
C15_WitnessNoPush ==
  /\ pc = "done"
  /\ polls = 0
  /\ nextId = 0
  /\ result \in Values

\* C16: whenever a token was cancelled or its guard dropped, at any point of
\* an iteration, then when the iteration ends with the write-back of the
\* registry the slot is empty, the pollable was dropped and the registration
\* is not in the registry; and no list drained afterwards holds it, so that
\* its waker is not invoked in a later iteration.
C16_CancelSafeAtAnyPoint ==
  /\ [][(pc = "fire" /\ pc' = "poll") =>
          \A id \in Ids : token[id] = "spent" =>
            /\ slot'[id] = "none"
            /\ released'[id] = 1
            /\ id \notin Range(WAKERS')]_vars
  /\ [][(pc = "drain" /\ pc' = "query") =>
          \A id \in Ids : token[id] = "spent" => id \notin Range(wakers')]_vars

\* C16, the state the code reaches: a registration whose token was cancelled
\* while run held its pollable is back in the registry with its pollable.
C16_CancelLost ==
  \E id \in Ids :
    /\ token[id] = "spent"
    /\ pc = "poll"
    /\ slot[id] = "some"
    /\ released[id] = 0
    /\ id \in Range(WAKERS)

\* C17: a flush is issued only with every byte of the chunk written and the
\* stream open; when it reports closed the chunk resolves successfully, when
\* it fails otherwise the chunk resolves with an error, and when it succeeds
\* the chunk is not resolved by it; after a flush that reported closed no
\* write and no flush is issued for the chunk.
C17_FlushClosedIsSuccess ==
  /\ []((closedAt.src = "flush") =>
         /\ closedAt.off = CurLen
         /\ sent[cur] = "ok"
         /\ Len(wsizes) = closedAt.writes
         /\ nflush[cur] = closedAt.flushes)
  /\ [][(cur > 0 /\ chunks' = chunks /\ nflush' # nflush) =>
          /\ offset = CurLen
          /\ wstate = "open"
          /\ sent[cur] = "none"
          /\ CASE wstate' = "open" -> flushing' /\ sent'[cur] = "none"
               [] closedAt'.src = "flush" -> sent'[cur] = "ok"
               [] OTHER -> sent'[cur] = "err"]_vars

\* C17 witness: a chunk written in two writes whose flush reported closed
\* resolved successfully.
C17_Witness ==
  /\ closedAt.src = "flush"
  /\ Len(wsizes) = 2
  /\ offset = CurLen
  /\ sent[cur] = "ok"

\* C17 second case: the flush of a chunk wholly written failed, and the
\* chunk resolved with an error.
C17_WitnessFlushFailed ==
  /\ cur > 0
  /\ CurLen > 0
  /\ offset = CurLen
  /\ nflush[cur] = 1
  /\ ~flushing
  /\ closedAt.src = "none"
  /\ wstate = "closed"
  /\ sent[cur] = "err"

\* Some route of the table matches the path.
SomeRouteMatches(routes, path) == \E p \in routes : PatMatches(p, path)

\* C18: for a request handled on a path that no route of its method and no
\* any-method route matches (nor, for HEAD, a GET route), the response is
\* 405 when a route of another method matches the path and 404 when none
\* does, and the handler invoked is none of those registered.
C18_NotAllowedOrNotFound ==
  (/\ request # NoRequest
   /\ response.path # NoMatch
   /\ ~SomeRouteMatches(methods_map[request.method], response.path)
   /\ ~SomeRouteMatches(any_methods, response.path)
   /\ request.method = "Head" => ~SomeRouteMatches(methods_map["Get"], response.path))
  =>
  /\ response.status \in {404, 405}
  /\ response.status = 405 <=>
       \E k \in Methods \ {request.method} :
         SomeRouteMatches(methods_map[k], response.path)
  /\ response.handler.table \in {"not_found", "method_not_allowed"}
  /\ response.handler.table = "method_not_allowed" <=> response.status = 405
  /\ response.params = NoCaptures

\* C18 witness: GET "/:x" registered, POST "/foo" answered 405.
C18_Witness ==
  /\ methods_map["Get"] = {<<Param("x")>>}
  /\ Cardinality(Routes) = 1
  /\ request.method = "Post"
  /\ request.path = <<"foo">>
  /\ route_on = "FullPath"
  /\ response.status = 405

\* C18 second case: GET "/foo" and POST "/:x" registered, HEAD "/foo/bar"
\* answered 404.
C18_WitnessNotFound ==
  /\ methods_map["Get"] = {<<Lit("foo")>>}
  /\ methods_map["Post"] = {<<Param("x")>>}
  /\ request.method = "Head"
  /\ request.path = <<"foo", "bar">>
  /\ route_on = "FullPath"
  /\ response.status = 404

\* Whether a registered handler was invoked.
Invoked == response.handler.table \in Methods \cup {"any"}

\* C19: a router built with Router::suffix() routes on the value of the
\* spin-path-info header: the route chosen matches that value and captures
\* from it, and the response is the same whatever the full path is; when the
\* header is absent the response is 500 and no handler is invoked.  A router
\* built with Router::new() routes on the full path, whatever the header is.
C19_SuffixRoutesOnPathInfo ==
  request # NoRequest =>
    /\ (route_on = "Suffix" /\ request.header.kind = "str") =>
         /\ response.path = request.header.value
         /\ \A p \in Paths :
              HandleAsync(methods_map, any_methods, route_on,
                          [request EXCEPT !.path = p]) = response
    /\ (route_on = "Suffix" /\ request.header.kind = "absent") =>
         (response.status = 500 /\ ~Invoked)
    /\ route_on = "FullPath" =>
         /\ response.path = request.path
         /\ \A h \in Headers :
              HandleAsync(methods_map, any_methods, route_on,
                          [request EXCEPT !.header = h]) = response
    /\ Invoked =>
         /\ PatMatches(response.handler.route, response.path)
         /\ response.params = Captures(response.handler.route, response.path)
         /\ response.status = 200

\* C19 witness: Router::suffix() with GET "/:x/*"; GET "/base/foo/bar" with
\* spin-path-info "/foo/bar" is routed with x = foo.
C19_Witness ==
  /\ route_on = "Suffix"
  /\ methods_map["Get"] = {<<Param("x"), Star>>}
  /\ request.method = "Get"
  /\ request.path = <<"base", "foo", "bar">>
  /\ request.header = [kind |-> "str", value |-> <<"foo", "bar">>]
  /\ Invoked
  /\ response.params = [named |-> {<<"x", "foo">>}, wildcard |-> <<"bar">>]

\* C19 second case: Router::suffix(), a route that matches the full path,
\* no spin-path-info header: 500.
C19_WitnessNoHeader ==
  /\ route_on = "Suffix"
  /\ any_methods = {<<Star>>}
  /\ request.method = "Get"
  /\ request.header.kind = "absent"
  /\ response.status = 500
  /\ ~Invoked

\* C20: Option<T>::decode is Ok(None) exactly for DbNull and otherwise
\* T::decode wrapped in Some, an error of T::decode passed on; T::decode
\* succeeds only on the variant of T, with its payload, and is Error::Decode
\* on every other variant, DbNull included; the MySQL bool is decoded from
\* Int8(0) as false and from Int8(1) as true and from no other value.
C20_DecodeIsVariantExact ==
  LET c == decode_call
      v == decode_call.value
      own == OwnVariant(c.db, c.ty)
      mbool == c.db = "mysql" /\ c.ty = "bool"
      \* what T::decode returns on v, read off the result of the call
      tOk == IF c.opt THEN decoded.ok /\ decoded.val.some ELSE decoded.ok
  IN c # NoCall =>
       /\ c.opt =>
            /\ (decoded.ok /\ ~decoded.val.some) <=> v.variant = "DbNull"
            /\ v.variant # "DbNull" => (decoded.ok <=> DecodeScalar(c.db, c.ty, v).ok)
       /\ ~decoded.ok => decoded = DecodeErr
       /\ (~c.opt /\ v.variant = "DbNull") => ~decoded.ok
       /\ tOk <=> (v.variant = own /\ (mbool => v.val \in {0, 1}))
       /\ tOk =>
            LET x == IF c.opt THEN decoded.val.val ELSE decoded.val IN
              IF mbool THEN x = (v.val = 1) ELSE x = v.val

\* C20 witness: the MySQL bool::decode of Int8(2) is an error.
C20_Witness ==
  /\ decode_call.db = "mysql"
  /\ decode_call.ty = "bool"
  /\ ~decode_call.opt
  /\ decode_call.value = [variant |-> "Int8", val |-> 2]
  /\ decoded = DecodeErr

\* C20 second case: pg4 Option<i32>::decode of Int32(1) is Some(1), and of
\* DbNull it is None.
C20_WitnessOption ==
  /\ decode_call.db = "pg4"
  /\ decode_call.ty = "i32"
  /\ decode_call.opt
  /\ decode_call.value = [variant |-> "Int32", val |-> 1]
  /\ decoded = DecodeOk([some |-> TRUE, val |-> 1])

\* C21: an iteration of run that got past its assertion issues exactly one
\* readiness query: the queries issued equal the polls that returned Pending
\* once the query is made, and are one short while run drains (or after it
\* panicked on an empty list, where the iteration ends before the query).
\* The query is made on the list run drained, which holds exactly the
\* registrations of the registry whose slot held a pollable, in order, and
\* its answer indexes that list; the count of queries changes by one, at the
\* query, and starts at 0 with each run.
C21_OneBatchedQueryPerIteration ==
  [][LET counted ==
           /\ pc \in {"idle", "poll", "done", "fire"} => queries = polls
           /\ pc \in {"drain", "query", "panicked"} => queries = polls - 1
         atQuery ==
           /\ pc = "query"
           /\ pc' = "fire"
           /\ queries' = queries + 1
           /\ wakers' = wakers
           /\ ready' # {}
           /\ ready' \subseteq 1..Len(wakers)
         atStart ==
           /\ pc \in {"idle", "done"}
           /\ pc' = "poll"
           /\ queries' = 0
         drained ==
           /\ Range(wakers') = {id \in Range(WAKERS) : slot[id] = "some"}
           /\ \A i, j \in 1..Len(wakers') :
                i < j => \E k, l \in 1..Len(WAKERS) :
                           k < l /\ WAKERS[k] = wakers'[i] /\ WAKERS[l] = wakers'[j]
     IN /\ counted
        /\ counted'
        /\ (queries' # queries) => (atQuery \/ atStart)
        /\ (pc = "drain" /\ pc' # "drain") => drained
        /\ (pc = "fire" /\ pc' # "fire") => (pc' = "poll")]_vars

\* C21 as stated: every iteration in which the root future returned Pending,
\* once it is over, has issued exactly one readiness query, the iteration
\* that ends in the panic included.
C21_EveryPendingIterationQueries ==
  pc \in {"idle", "poll", "done", "fire", "panicked"} => queries = polls

\* C21 witness: the query of an iteration was made on two pollables, a third
\* registration having been cancelled before the drain.
C21_Witness ==
  /\ pc = "fire"
  /\ polls = 1
  /\ queries = 1
  /\ Len(wakers) = 2
  /\ cancelled # {}

\* C21 second case: the second iteration of a run made its query.
C21_WitnessSecondQuery ==
  /\ pc = "fire"
  /\ polls = 2
  /\ queries = 2

C22_WitnessResumed ==
  /\ polls >= 1
  /\ spc = "loop"
  /\ Len(wsizes) >= 2
  /\ offset = CurLen
  /\ wakeCount[cancel_token] = 1

\* C23: a write is issued in a pass through the loop whose own check_write
\* answered a positive capacity; it carries min(that capacity, bytes left in
\* the chunk) bytes, at least one and never more than the capacity, taken
\* from the offset; when it succeeds those bytes are appended to what the
\* resource accepted and the offset advances by their count, and when it
\* fails the offset stays and the send resolves with the error.  The offset
\* changes in no other way within a chunk, and never exceeds the chunk's
\* length.
C23_WriteIsMinOfCapacityAndRest ==
  [][LET k == wsizes'[Len(wsizes')]
         write == Len(wsizes') = Len(wsizes) + 1
         same == Len(chunks') = Len(chunks)
     IN /\ write =>
             /\ spc = "loop"
             /\ check'.t = "ok"
             /\ check'.n > 0
             /\ k = Min(check'.n, CurLen - offset)
             /\ k >= 1
             /\ k <= check'.n
             /\ \/ /\ written' = written \o SubSeq(chunks[cur], offset + 1, offset + k)
                   /\ offset' = offset + k
                   /\ sent' = sent
                \/ /\ written' = written
                   /\ offset' = offset
                   /\ sent'[cur] = "err"
        /\ (same /\ offset' # offset) => (write /\ offset' > offset)
        /\ (~same) => offset' = 0
        /\ (cur > 0) => offset <= CurLen
        /\ (Len(chunks') > 0) => offset' <= Len(chunks'[Len(chunks')])]_vars

\* C23 witness: a chunk of three bytes was written by a write of two bytes
\* and a write of one, the second cut down from the capacity of two to the
\* byte left.
C23_Witness ==
  /\ cur > 0
  /\ CurLen = 3
  /\ wsizes = <<2, 1>>
  /\ check = [t |-> "ok", n |-> 2]
  /\ offset = 3

\* C23 second case: a write failed and left the offset where it was.
C23_WitnessFailedWrite ==
  /\ cur > 0
  /\ Len(wsizes) = 2
  /\ offset = wsizes[1]
  /\ sent[cur] = "err"

\* C24: a flush is issued only in a pass whose check_write answered a
\* positive capacity, with the offset at the chunk's length and no flush
\* issued for the chunk before, so a chunk has at most one flush; no write is
\* issued for a chunk that was flushed; the flag flushing is set only by a
\* flush that succeeded.  After that flush every pass is decided by its
\* check_write alone: the send resolves with success on a positive capacity
\* or on closed, with the error on a failure, and on 0 it suspends with a new
\* live registration held by the sink.
C24_FlushOncePerChunkThenResolve ==
  [][LET same == Len(chunks') = Len(chunks)
         flush == same /\ nflush' # nflush
         write == Len(wsizes') = Len(wsizes) + 1
         afterFlush == same /\ spc = "loop" /\ flushing
         positive == check'.t = "ok" /\ check'.n > 0
     IN /\ flush =>
             /\ spc = "loop"
             /\ positive
             /\ offset = CurLen
             /\ ~flushing
             /\ nflush[cur] = 0
             /\ nflush' = [nflush EXCEPT ![cur] = 1]
        /\ write => (nflush[cur] = 0 /\ ~flushing)
        /\ (same /\ flushing' /\ ~flushing) => (flush /\ sent' = sent)
        /\ \A c \in 1..Len(nflush) : nflush[c] <= 1
        /\ afterFlush =>
             /\ ~flush
             /\ ~write
             /\ nflush[cur] = 1
             /\ positive => (sent'[cur] = "ok" /\ spc' = "idle")
             /\ check'.t = "closed" => (sent'[cur] = "ok" /\ spc' = "idle")
             /\ check'.t = "failed" => (sent'[cur] = "err" /\ spc' = "failed")
             /\ (check'.t = "ok" /\ check'.n = 0) =>
                  /\ spc' = "suspended"
                  /\ sent' = sent
                  /\ nextId' = nextId + 1
                  /\ cancel_token' = nextId'
                  /\ cancel_token' \in Range(WAKERS')
                  /\ slot'[cancel_token'] = "some"]_vars

\* C24 witness: a chunk was written, flushed with success, and resolved on a
\* later positive capacity after the send had suspended on a capacity of 0.
C24_Witness ==
  /\ cur > 0
  /\ flushing
  /\ CurLen > 0
  /\ nflush[cur] = 1
  /\ sent[cur] = "ok"
  /\ check.t = "ok"
  /\ cancel_token # 0
  /\ wakeCount[cancel_token] = 1

\* C24 second case: the send is suspended after its flush.
C24_WitnessSuspendedAfterFlush ==
  /\ flushing
  /\ spc = "suspended"
  /\ cancel_token \in Live

\* C24 third case: after the flush the stream reported closed and the chunk
\* resolved with success.
C24_WitnessClosedAfterFlush ==
  /\ cur > 0
  /\ flushing
  /\ sent[cur] = "ok"
  /\ check.t = "closed"

\* C25: while io::poll::poll is in progress run holds no guard, of the
\* registry or of a slot, and a push is not blocked (a cancel never is: no
\* guard of a slot outlives its statement); run holds a guard only inside
\* the statement that drains the registry and inside the one that writes it
\* back, and then the guard of WAKERS alone.
C25_NoLockHeldDuringQuery ==
  /\ pc = "polling" => (held = {} /\ ~PushBlocked)
  /\ held # {} => (held = {"WAKERS"} /\ pc \in {"draining", "written"})
  /\ pc \in {"draining", "written"} => held = {"WAKERS"}

\* C25 witness: during the query a registration was pushed and another was
\* cancelled.
C25_Witness ==
  /\ pc = "polling"
  /\ WAKERS # <<>>
  /\ \E id \in Range(wakers) : token[id] = "spent"

\* C26: outgoing_handler::handle is called once, when the send future is
\* built, and by no poll.  A poll of a send future whose dispatch failed
\* resolves with that error and registers nothing, the first poll included.
\* A poll of one that holds a handle resolves with the handle's value when
\* there is one, registering nothing, and when there is none pushes one
\* live registration, guarded by State.cancel_token, and returns Pending
\* unresolved; so the future is never resolved with a response while the
\* handle has no value.
C26_SendDispatchesOncePollsHandle ==
  [][LET poll == send_polls' = send_polls + 1
         pushed == /\ nextId' = nextId + 1
                   /\ WAKERS' = Append(WAKERS, nextId')
                   /\ slot'[nextId'] = "some"
                   /\ state_cancel_token' = nextId'
                   /\ token'[nextId'] = "guard"
         nothingPushed == nextId' = nextId /\ WAKERS' = WAKERS
     IN /\ (handled' # handled) => (send_pc = "unbuilt" /\ handled' = 1)
        /\ (send_pc' # "unbuilt") => handled' = 1
        /\ poll => handled' = handled
        /\ (poll /\ state_response = "err") =>
             /\ send_result' = "dispatch_err"
             /\ send_pc' = "resolved"
             /\ nothingPushed
        /\ (poll /\ state_response = "handle" /\ future_response # "absent") =>
             /\ send_result' = future_response
             /\ send_pc' = "resolved"
             /\ nothingPushed
        /\ (poll /\ state_response = "handle" /\ future_response = "absent") =>
             /\ send_result' = "none"
             /\ send_pc' = "suspended"
             /\ pc' = "drain"
             /\ pushed
        /\ (send_polls' # send_polls) => poll
        /\ (send_result' # send_result) => poll
        /\ (send_result' \in {"ok", "err"}) => future_response' = send_result'
        /\ (send_result' = "dispatch_err") => state_cancel_token' = 0]_vars

\* C26 witness: the send future found no value on its first poll, suspended,
\* was woken and resolved with the response on its second poll.
C26_Witness ==
  /\ handled = 1
  /\ send_polls = 2
  /\ send_result = "ok"
  /\ state_cancel_token # 0
  /\ wakeCount[state_cancel_token] = 1

\* C26 second case: the dispatch failed and the first poll resolved with the
\* error, nothing registered.
C26_WitnessDispatchFailed ==
  /\ handled = 1
  /\ send_polls = 1
  /\ send_result = "dispatch_err"
  /\ nextId = 0

\* C27: the reads issued on the input stream are one per pull made, each
\* asking READ_SIZE bytes, so that no read is issued but by a pull; a chunk
\* yielded is the buffer the pull's own read returned, of at least one byte
\* and at most READ_SIZE; a read that returned an empty buffer yields no
\* chunk: its pull returned Pending and left a registration.
C27_OneBoundedReadPerPull ==
  /\ Len(reads) = Len(pulls)
  /\ \A i \in 1..Len(reads) : reads[i] = READ_SIZE
  /\ \A i \in 1..Len(pulls) :
       LET p == pulls[i] IN
         /\ p.out.r = "chunk" =>
              /\ p.read.a = "data"
              /\ p.out.n = p.read.n
              /\ p.out.n >= 1
              /\ p.out.n <= reads[i]
         /\ (p.read.a = "data" /\ p.read.n = 0) =>
              /\ p.out.r = "pending"
              /\ p.reg \in 1..nextId
         /\ p.out.r # "pending" => p.reg = 0

\* C27 witness: a pull read a full buffer and yielded it, after a pull whose
\* read was empty had suspended.
C27_Witness ==
  /\ Len(pulls) = 2
  /\ pulls[1].out.r = "pending"
  /\ pulls[2].out = [r |-> "chunk", n |-> READ_SIZE]
  /\ reads = <<READ_SIZE, READ_SIZE>>

\* The adapters whose last poll returned Pending and that were not dropped,
\* each with the guard it holds.
Suspended ==
  {a \in {<<"sink", cancel_token>>, <<"source", in_cancel_token>>,
          <<"send", state_cancel_token>>} :
     CASE a[1] = "sink" -> spc = "suspended"
       [] a[1] = "source" -> /\ pulls # <<>>
                             /\ pulls[Len(pulls)].out.r = "pending"
                             /\ in_stream_and_body = "some"
       [] OTHER -> send_pc = "suspended"}

\* C28: when run drains the registry, every adapter operation whose last poll
\* returned Pending and that was not dropped holds the guard of a
\* registration that is in the registry with its pollable (no wake-up is
\* lost), and every live registration an adapter made is the one its guard
\* stands for (none is duplicated); a poll that suspends again pushes a new
\* registration, keeps its guard and empties the slot of the one held before.
C28_OneLiveRegistrationPerAdapter ==
  [][/\ pc' = "drain" =>
          /\ Suspended' # {}
          /\ \A a \in Suspended' : a[2] # 0 /\ a[2] \in Range(WAKERS') /\ slot'[a[2]] = "some"
          /\ {id \in Range(WAKERS') : slot'[id] = "some" /\ token'[id] # "none"}
               = {a[2] : a \in Suspended'}
     /\ \A old \in {cancel_token, in_cancel_token, state_cancel_token} \ {0} :
          (pc = "poll" /\ pc' = "drain") =>
             /\ slot'[old] # "some"
             /\ token'[old] = "spent"
             /\ old # nextId'
             /\ {a[2] : a \in Suspended'} = {nextId'}]_vars

\* C28 witness: the sink, suspended, was polled again because the other
\* sub-task's pollable was ready, not its own, and suspended again: its first
\* registration is cancelled and its second is live when run drains.
C28_Witness ==
  /\ pc = "drain"
  /\ spc = "suspended"
  /\ cancel_token = 3
  /\ cancelled = {2}
  /\ wakeCount = [id \in Ids |-> IF id = 1 THEN 1 ELSE 0]
  /\ Live = {3}

\* C28 second case: the same for the send future.
C28_WitnessSend ==
  /\ pc = "drain"
  /\ send_pc = "suspended"
  /\ state_cancel_token = 3
  /\ cancelled = {2}
  /\ Live = {3}

\* C28 third case: the same for the source.
C28_WitnessSource ==
  /\ pc = "drain"
  /\ <<"source", 3>> \in Suspended
  /\ cancelled = {2}
  /\ Live = {3}

\* C29: when run drains the registry, every registration pushed so far whose
\* waker was never invoked and whose token was never cancelled nor dropped
\* is in the registry with its pollable, also when it was pushed while an
\* iteration of run was in progress.
C29_NoRegistrationLost ==
  pc = "drain" =>
    \A id \in 1..nextId :
      (wakeCount[id] = 0 /\ token[id] # "spent") =>
        (id \in Range(WAKERS) /\ slot[id] = "some")

\* C29: a registration pushed between the drain and the write-back is gone
\* from the registry when the iteration ends, though it never fired and was
\* never cancelled; its slot still holds the pollable.
C29_PushLost ==
  /\ pc = "poll"
  /\ \E id \in 1..nextId :
       /\ wakeCount[id] = 0
       /\ token[id] # "spent"
       /\ slot[id] = "some"
       /\ id \notin Range(WAKERS)

\* C30: the list run queries holds, at position i, the i-th entry of the
\* registry among those whose slot held a pollable, the cancelled entries
\* not counted; the indices the query reports are positions of that list,
\* and the wakers run then invokes are exactly those of the entries at the
\* reported positions, one call each; a cancelled entry's waker is not
\* invoked.
C30_IndicesAgainstQueriedList ==
  [][/\ (pc = "drain" /\ pc' = "query") =>
          \A i \in 1..Len(wakers') :
            \E k \in 1..Len(WAKERS) :
              /\ WAKERS[k] = wakers'[i]
              /\ slot[WAKERS[k]] = "some"
              /\ Cardinality({j \in 1..k : slot[WAKERS[j]] = "some"}) = i
     /\ (pc = "query" /\ pc' = "fire") =>
          (wakers' = wakers /\ ready' \subseteq 1..Len(wakers))
     /\ (pc = "fire" /\ pc' # "fire") =>
          \A id \in Ids :
            wakeCount'[id] =
              wakeCount[id] + Cardinality({i \in ready : wakers[i] = id})
     /\ \A id \in cancelled : wakeCount'[id] = wakeCount[id]]_vars

\* C30 witness: the registry held a cancelled entry followed by two live
\* ones; the query reported its first index ready, and the waker invoked is
\* that of the second entry of the registry, the first one queried.
C30_Witness ==
  /\ pc = "poll"
  /\ polls = 1
  /\ cancelled = {1}
  /\ wakeCount = [id \in Ids |-> IF id = 2 THEN 1 ELSE 0]
  /\ WAKERS = <<3>>

\* C30 second case: a cancelled entry between two live ones, the second
\* index ready.
C30_WitnessCancelledInside ==
  /\ pc = "poll"
  /\ polls = 1
  /\ cancelled = {2}
  /\ wakeCount = [id \in Ids |-> IF id = 3 THEN 1 ELSE 0]
  /\ WAKERS = <<1>>

\* ---------------------------------------------------------------------- C31

\* The registrations that were live when run last returned and that no cancel
\* or guard drop has released since.
Carried == live_at_return \ cancelled

\* C31: the registry outlives run.  The return of run and the next call of run
\* leave the registry and every slot as they are; a registration that was live
\* when run returned, and that its holder has not cancelled since, is still in
\* the registry with its pollable until the next run's first drain, is in the
\* list that run queries in its first pending iteration, and is enough for
\* that run's assertion to pass.
C31_RegistryOutlivesRun ==
  /\ [] ( /\ (pc = "done" \/ (pc = "poll" /\ runs > 1 /\ polls = 0)) =>
               \A id \in Carried : id \in Range(WAKERS) /\ slot[id] = "some"
          /\ (pc \in {"query", "fire"} /\ runs > 1 /\ polls = 1) =>
               Carried \subseteq Range(wakers)
          /\ (pc = "panicked" /\ runs > 1 /\ polls = 1) => Carried = {} )
  /\ [][ /\ (pc = "poll" /\ pc' = "done") =>
              WAKERS' = WAKERS /\ slot' = slot /\ live_at_return' = Live
         /\ (pc = "done" /\ pc' = "poll") =>
              WAKERS' = WAKERS /\ slot' = slot /\ runs' = runs + 1 ]_vars

\* The second run queries in its first pending iteration, and every pollable
\* it queries is one a registration of the first run left behind.
C31_Witness ==
  /\ runs = 2
  /\ pc = "query"
  /\ polls = 1
  /\ wakers # <<>>
  /\ Range(wakers) \subseteq live_at_return

\* The second run fires in its first iteration the waker of a registration
\* that the first run left behind, among those it queried.
C31_WitnessFired ==
  /\ runs = 2
  /\ pc = "fire"
  /\ polls = 1
  /\ Len(wakers) = 2
  /\ \E i \in ready : wakers[i] \in live_at_return
  /\ \E id \in Range(wakers) : id \notin live_at_return

\* ---------------------------------------------------------------------- C32

\* C32: a chunk of no bytes.  No write is issued for it and the bytes the
\* resource accepted stay as they were.  The first pass of its send whose
\* check_write answers a positive capacity issues the chunk's one flush; once
\* that flush has succeeded a positive capacity or closed resolves the send
\* with success and a failure with the error, as for a chunk with bytes.  When
\* the first check_write of the send answers closed, the send resolves with
\* success in that poll, with no flush and no registration.
C32_EmptyChunk ==
  [][LET same == Len(chunks') = Len(chunks)
         empty == cur > 0 /\ same /\ CurLen = 0
         positive == check'.t = "ok" /\ check'.n > 0
         pass == spc = "loop" /\ check' # NoCheck
     IN empty =>
          /\ wsizes' = <<>>
          /\ written' = written
          /\ offset' = 0
          /\ nflush'[cur] <= 1
          /\ (pass /\ positive /\ ~flushing) =>
               /\ nflush[cur] = 0
               /\ nflush'[cur] = 1
          /\ (pass /\ positive /\ flushing) =>
               /\ nflush' = nflush
               /\ sent'[cur] = "ok"
               /\ spc' = "idle"
          /\ (pass /\ flushing /\ check'.t = "closed") => sent'[cur] = "ok"
          /\ (pass /\ flushing /\ check'.t = "failed") => sent'[cur] = "err"
          /\ (pass /\ check = NoCheck /\ check'.t = "closed") =>
               /\ sent'[cur] = "ok"
               /\ spc' = "idle"
               /\ nflush'[cur] = 0
               /\ nextId' = nextId
               /\ pc' = "poll"]_vars

\* C32 witness: a chunk of no bytes was flushed once against a positive
\* capacity and resolved with success on the next positive capacity, nothing
\* written for it.
C32_Witness ==
  /\ cur > 0
  /\ CurLen = 0
  /\ sent[cur] = "ok"
  /\ flushing
  /\ nflush[cur] = 1
  /\ wsizes = <<>>
  /\ check.t = "ok"
  /\ closedAt.src = "none"

\* C32 second case: after a first chunk with bytes, whose flush found the
\* resource closed, a chunk of no bytes resolved with success on its first
\* check_write, with no flush, no write and no suspension.
C32_WitnessAlreadyClosed ==
  /\ cur = 2
  /\ Len(chunks[1]) > 0
  /\ CurLen = 0
  /\ sent = <<"ok", "ok">>
  /\ nflush[cur] = 0
  /\ wsizes = <<>>
  /\ closedAt.src = "check"
  /\ nextId = 0

\* ---------------------------------------------------------------------- C33

\* The items of fs that are not Pending, in order.
Yielded(fs) == SelectSeq(fs, LAMBDA it : it.t # "pending")

\* Where an item stands in the order data, final item, end.
Rank(it) == CASE it.t = "data" -> 0 [] it.t \in {"trailers", "error"} -> 1 [] OTHER -> 2

\* C33: on a started body the calls of poll_frame that do not return Pending
\* yield data frames first, then at most one trailers frame or error, then
\* None for good.  The k-th data frame carries the k-th buffer the stream
\* handed over, and there is one per completed read; the final item, or the
\* first None, comes only when every buffer of the stream was yielded and is
\* what the trailers future resolved with.  One read future exists per data
\* frame, and one more while a read is in flight or after the stream was
\* found dropped.  A call that returns Pending leaves the body Reading with
\* the read future it had; once Done the body stays Done.
C33_FramesThenFinalThenNone ==
  /\ [] ( body_state = "Started" =>
            LET ys == Yielded(frames)
                data == SelectSeq(ys, LAMBDA it : it.t = "data")
                after == SelectSeq(ys, LAMBDA it : it.t # "data")
            IN /\ \A i \in 1..Len(ys), j \in 1..Len(ys) :
                    i < j => /\ Rank(ys[i]) <= Rank(ys[j])
                             /\ Rank(ys[i]) = 1 => Rank(ys[j]) = 2
               /\ Len(data) = cursor
               /\ \A k \in 1..Len(data) : data[k].buf = message.stream[k]
               /\ after # <<>> =>
                    /\ cursor = Len(message.stream)
                    /\ after[1] = TrailersItem(message.trailers)
                    /\ incoming_state = "Done"
               /\ incoming_state = "Done" => after # <<>>
               /\ reads_issued =
                    cursor + (IF incoming_state \in {"Reading", "Done"} THEN 1 ELSE 0) )
  /\ [][ (body_state' = "Started" /\ Len(frames') = Len(frames) + 1) =>
           LET it == frames'[Len(frames')] IN
             /\ it.t = "pending" =>
                  /\ incoming_state' = "Reading"
                  /\ cursor' = cursor
                  /\ incoming_state = "Reading" =>
                       /\ reads_issued' = reads_issued
                       /\ read_phase = "trailers" => read_phase' = "trailers"
             /\ incoming_state = "Done" =>
                  /\ incoming_state' = "Done"
                  /\ it = NoneItem
                  /\ UNCHANGED <<cursor, reads_issued>> ]_vars

\* C33 witness: a first call returned Pending, the read it left in flight
\* completed with a full buffer, a second read gave an empty one, then the
\* trailers came, and the last call returned None.
C33_Witness ==
  /\ body_state = "Started"
  /\ Len(frames) = 5
  /\ frames[1] = PendingItem
  /\ frames[2].t = "data" /\ frames[2].buf.n = READ_FRAME_SIZE
  /\ frames[3].t = "data" /\ frames[3].buf.n = 0
  /\ frames[4].t = "trailers"
  /\ frames[5] = NoneItem

\* C33 second case: the trailers future, awaited over a call that returned
\* Pending, failed; the error was yielded once and None after it.
C33_WitnessError ==
  /\ body_state = "Started"
  /\ Len(frames) = 5
  /\ frames[1].t = "data"
  /\ frames[2] = PendingItem
  /\ frames[3] = Item("error", NoBuf, "code")
  /\ frames[4] = NoneItem
  /\ frames[5] = NoneItem

\* ---------------------------------------------------------------------- C34

\* take_unstarted has handed out the message.
Taken == \E i \in 1..Len(takes) : takes[i].ret = "msg"

\* C34: the body is Unstarted exactly until its first call of poll_frame or
\* take_unstarted.  A call of take_unstarted returns the message if and only
\* if it is the first call and no poll_frame came before it.  A body that was
\* polled first is Started and stays so, and its take_unstarted returns None.
\* A body whose message was taken is Empty and stays so: take_unstarted
\* returns None, and poll_frame returns the InternalError of ensure_started,
\* creates no read and yields no frame.
C34_BodyLifecycle ==
  /\ [] ( /\ body_state = "Unstarted" <=> (frames = <<>> /\ takes = <<>>)
          /\ body_state = "Empty" <=> Taken
          /\ body_state = "Started" <=> (frames # <<>> /\ ~Taken)
          /\ \A i \in 1..Len(takes) :
               takes[i].ret = "msg" <=> (i = 1 /\ takes[i].polled = 0)
          /\ Taken => /\ reads_issued = 0
                      /\ incoming_state = "none"
                      /\ \A i \in 1..Len(frames) :
                           frames[i] = Item("error", NoBuf, "taken") )
  /\ [][ /\ Len(takes') = Len(takes) + 1 =>
              /\ takes'[Len(takes')].polled = Len(frames)
              /\ takes'[Len(takes')].ret = "msg" <=> body_state = "Unstarted"
              /\ takes'[Len(takes')].ret = "msg" => body_state' = "Empty"
              /\ takes'[Len(takes')].ret = "none" => body_state' = body_state
         /\ body_state = "Started" => body_state' = "Started"
         /\ body_state = "Empty" => body_state' = "Empty" ]_vars

\* C34 witness: the message was taken by the first call; the second call of
\* take_unstarted returned None and two calls of poll_frame the error.
C34_Witness ==
  /\ Len(takes) = 2
  /\ takes[1].ret = "msg"
  /\ takes[2].ret = "none"
  /\ Len(frames) = 2
  /\ frames[2].e = "taken"
  /\ message.stream # <<>>

\* C34 second case: the body was polled first; take_unstarted then returned
\* None and a later poll_frame yielded a data frame.
C34_WitnessPolledFirst ==
  /\ body_state = "Started"
  /\ Len(takes) = 1
  /\ takes[1] = [ret |-> "none", polled |-> 1]
  /\ Len(frames) = 2
  /\ frames[1] = PendingItem
  /\ frames[2].t = "data"

\* ---------------------------------------------------------------------- C35

C35_WitnessAny ==
  /\ methods_map["Get"] = {<<Lit("foo")>>}
  /\ any_methods = {<<Param("x")>>}
  /\ request.method = "Get"
  /\ request.path = <<"bar">>
  /\ route_on = "FullPath"
  /\ response.handler = [table |-> "any", route |-> <<Param("x")>>]

\* ---------------------------------------------------------------------- C36

\* C36: a HEAD request handled on a path.  When a HEAD route matches, the
\* best of them is chosen; otherwise, when an any-method route matches, the
\* best of those.  When neither does the response is the one a GET request
\* for the same path and header gets: the best matching GET route if there is
\* one, otherwise 405 if a route of a method other than GET matches the path
\* and 404 if none does.
C36_HeadFallsBackToGet ==
  (request # NoRequest /\ response.path # NoMatch /\ request.method = "Head") =>
    LET path == response.path
        head == SomeRouteMatches(methods_map["Head"], path)
        all == SomeRouteMatches(any_methods, path)
        get == SomeRouteMatches(methods_map["Get"], path)
    IN /\ head => response.handler =
                    [table |-> "Head", route |-> BestMatch(methods_map["Head"], path)]
       /\ (~head /\ all) => response.handler =
                    [table |-> "any", route |-> BestMatch(any_methods, path)]
       /\ (~head /\ ~all) =>
            /\ response = HandleAsync(methods_map, any_methods, route_on,
                                      [request EXCEPT !.method = "Get"])
            /\ get =>
                 /\ response.handler =
                      [table |-> "Get", route |-> BestMatch(methods_map["Get"], path)]
                 /\ response.params = Captures(response.handler.route, path)
                 /\ response.status = 200
            /\ ~get =>
                 /\ ~Invoked
                 /\ response.status =
                      IF \E k \in Methods \ {"Get"} :
                           SomeRouteMatches(methods_map[k], path)
                      THEN 405 ELSE 404

\* C36 witness: only GET "/:x" registered; HEAD "/foo" goes to it.
C36_Witness ==
  /\ methods_map["Get"] = {<<Param("x")>>}
  /\ Cardinality(Routes) = 1
  /\ request.method = "Head"
  /\ request.path = <<"foo">>
  /\ route_on = "FullPath"
  /\ response.handler = [table |-> "Get", route |-> <<Param("x")>>]
  /\ response.status = 200

\* C36 second case: only POST "/foo" registered; HEAD "/foo" is answered 405.
C36_WitnessNotAllowed ==
  /\ methods_map["Post"] = {<<Lit("foo")>>}
  /\ Cardinality(Routes) = 1
  /\ request.method = "Head"
  /\ request.path = <<"foo">>
  /\ route_on = "FullPath"
  /\ response.status = 405

\* C36 third case: HEAD "/*" and GET "/foo" registered; HEAD "/foo" goes to
\* the HEAD route.
C36_WitnessHeadRoute ==
  /\ methods_map["Head"] = {<<Star>>}
  /\ methods_map["Get"] = {<<Lit("foo")>>}
  /\ request.method = "Head"
  /\ request.path = <<"foo">>
  /\ route_on = "FullPath"
  /\ response.handler = [table |-> "Head", route |-> <<Star>>]

\* ---------------------------------------------------------------------- C37

\* What the error of a returned Err is, whatever type carries it.
ErrorIs(res) ==
  CASE res.is.kind \in {"code", "Error::ErrorCode"} -> "ErrorCode"
    [] res.is.kind \in {"response", "Error::Response"} -> "Response"
    [] OTHER -> "other"

\* The outcome named for a returned Result: Ok(v) gives v.into_response(), an
\* ErrorCode Err(that code), a Response Ok(that response), and any other
\* error Err(InternalError) with the error's message.
Named(res) ==
  IF res.ok THEN OkIntoResponse(res.via, res.is)
  ELSE CASE ErrorIs(res) = "ErrorCode" -> ErrCode(res.is.val, "")
         [] ErrorIs(res) = "Response" -> OkResponse(res.is.val)
         [] OTHER -> ErrCode("InternalError", res.is.val)

\* C37: into_response gives every returned Result the outcome named for it.
C37_EveryResultMapped ==
  returned # NoReturn => outcome = Named(returned)

\* C37, the case that fails: the handler returned Err of an http::Error and
\* the conversion panicked.
C37_HttpErrorPanics ==
  /\ returned.via = "http::Error"
  /\ ~returned.ok
  /\ outcome = Panics

\* C37 without that case: every Result whose Err is not of type http::Error
\* has the outcome named for it, and an Err of an http::Error panics.
C37_MappedButHttpError ==
  returned # NoReturn =>
    IF ~returned.ok /\ returned.via = "http::Error"
    THEN outcome = Panics
    ELSE outcome = Named(returned)

\* C37, a case that holds: an anyhow::Error holding an Error::Response gives
\* Ok of that response.
C37_ResponseAsError ==
  /\ returned = [ok |-> FALSE, via |-> "anyhow",
                 is |-> [kind |-> "Error::Response", val |-> "response404"]]
  /\ outcome = OkResponse("response404")
====
